---- MODULE Spec2Model ----
(***************************************************************************)
(* A model of the Kalshi news tracker's ingestion pipeline:                *)
(*   - KalshiClient._request and the paginated "fetch all" loops           *)
(*     (backend/kalshi_client.py), specification ClientSpec;               *)
(*   - ingest_kalshi_data, the store it writes through the crud layer and  *)
(*     the scheduler loop that drives it (backend/ingestion.py,            *)
(*     backend/database/*.py, backend/main.py), specification Spec;        *)
(*   - the loop and POST /refresh as two tasks, specification ServerSpec;  *)
(*   - the crud layer, retention and the article-event links called        *)
(*     directly, specifications CrudSpec, NewsSpec and PurgeSpec;          *)
(*   - the scoring functions calculate_market_heat and                     *)
(*     calculate_relevance_score, specification ScoreSpec;                 *)
(*   - categorize_market, group_markets_by_topic, get_topics and           *)
(*     match_news_to_market, specification TopicSpec.                      *)
(***************************************************************************)
EXTENDS Integers, Sequences, FiniteSets, TLC

VARIABLES
    \* ---- KalshiClient (kalshi_client.py) ----
    fn,          \* which fetch-all is running: "markets" | "events"
    max_items,   \* max_markets / max_events
    cpc,         \* position in the fetch-all loop
    all_items,   \* all_markets / all_events
    cursor,      \* the loop's cursor variable
    attempt,     \* _request: the for-loop index
    outcome,     \* _request: how the call ended ("none" while running)
    body,        \* _request: the JSON body returned
    responses,   \* history: the status of each response of the current _request call
    sleeps,      \* history: the sleeps (ms) of the current _request call
    sent,        \* history: the cursor parameter of each page request
    pages,       \* history: the pages the server returned, in order
    ret,         \* the list the fetch-all returned (once cpc = "done")
    \* ---- ingestion (ingestion.py, database/, main.py) ----
    db,          \* the committed store
    pc,          \* per task: position in background_ingestion_loop / ingest_kalshi_data
    tx,          \* per task: the session's view of the store (committed + pending writes)
    loc,         \* per task: the local variables of ingest_kalshi_data
    hist,        \* per task: history of the current cycle (stages, logs, outcome)
    clock,       \* datetime.utcnow(), in days
    call         \* history: the last call a caller made into the crud layer or a
                 \* scoring, topic or matching function

cvars == <<fn, max_items, cpc, all_items, cursor, attempt, outcome, body,
           responses, sleeps, sent, pages, ret>>
ivars == <<db, pc, tx, loc, hist>>
kvars == <<clock, call>>
vars == <<fn, max_items, cpc, all_items, cursor, attempt, outcome, body,
          responses, sleeps, sent, pages, ret, db, pc, tx, loc, hist, clock, call>>

\* Python's None, and dict.get on a record that may lack the key.
None == "None"
Get(d, k) == IF k \in DOMAIN d THEN d[k] ELSE None
\* Python truthiness of an optional string.
Truthy(v) == v # None /\ v # ""

Take(s, n) == SubSeq(s, 1, IF n < Len(s) THEN n ELSE Len(s))
Range(s) == {s[i] : i \in DOMAIN s}

RECURSIVE Pow2(_)
Pow2(n) == IF n = 0 THEN 1 ELSE 2 * Pow2(n - 1)

RECURSIVE Flatten(_)
Flatten(ss) == IF ss = <<>> THEN <<>> ELSE Head(ss) \o Flatten(Tail(ss))

(***************************************************************************)
(* KalshiClient                                                            *)
(***************************************************************************)

\* Bounds of the client model.
MaxCap == 3       \* the largest max_markets / max_events tried
MaxPageLen == 2   \* the largest page the server returns

\* Program constants (sleeps in milliseconds).
max_retries == 3
backoff_factor == 1000
network_retry_sleep == 1000

\* The value of a call that produced no JSON body (Python's None).
NoBody == [none |-> TRUE]

Cursors == {None, "", "c1", "c2"}

\* What one HTTP exchange can produce: a status (200 with a body, 429, another
\* error status), a transport error (httpx.RequestError), or any other exception
\* (e.g. response.json() failing).
Statuses == {"200", "429", "500", "net", "other"}

\* The items of a page are numbered in the order the server hands them out.
Concat(ps) == Flatten([i \in DOMAIN ps |-> ps[i].items])
NextItems(n) == [i \in 1..n |-> Len(Concat(pages)) + i]
Bodies == {[items |-> NextItems(n), cursor |-> c] : n \in 0..MaxPageLen, c \in Cursors}

ClientInit ==
    /\ fn \in {"markets", "events"}
    /\ max_items \in 0..MaxCap
    /\ cpc = "while"
    /\ all_items = <<>>
    /\ cursor = None
    /\ attempt = 0
    /\ outcome = "none"
    /\ body = NoBody
    /\ responses = <<>>
    /\ sleeps = <<>>
    /\ sent = <<>>
    /\ pages = <<>>
    /\ ret = <<>>

ClientIdle ==
    /\ fn = "markets"
    /\ max_items = 0
    /\ cpc = "idle"
    /\ all_items = <<>>
    /\ cursor = None
    /\ attempt = 0
    /\ outcome = "none"
    /\ body = NoBody
    /\ responses = <<>>
    /\ sleeps = <<>>
    /\ sent = <<>>
    /\ pages = <<>>
    /\ ret = <<>>

\* get_markets / get_events: the cursor parameter is sent only when truthy.
CursorParam(c) == IF Truthy(c) THEN c ELSE None

\* The while condition of get_all_open_markets / get_all_events.
WhileCond == Len(all_items) < max_items

\* while len(all) < max: ... data = await self.get_markets(cursor=cursor)
\* or, when the condition fails, return all[:max].
While ==
    /\ cpc = "while"
    /\ IF WhileCond
       THEN /\ cpc' = "request"
            /\ sent' = Append(sent, CursorParam(cursor))
            /\ attempt' = 0
            /\ outcome' = "none"
            /\ body' = NoBody
            /\ responses' = <<>>
            /\ sleeps' = <<>>
            /\ ret' = ret
       ELSE /\ cpc' = "done"
            /\ ret' = Take(all_items, max_items)
            /\ UNCHANGED <<sent, attempt, outcome, body, responses, sleeps>>
    /\ UNCHANGED <<fn, max_items, all_items, cursor, pages>>
    /\ UNCHANGED <<ivars, kvars>>

\* _request: the guards of the two retry branches.
RetryAnyHttpError(status, att) == status \in {"429", "500"} /\ att < max_retries
RetryRateLimitAlways(status, att) == status = "429"
RetryRateLimit(status, att) == status = "429" /\ att < max_retries
RetryNetworkOnce(status, att) == att < 1 /\ status = "net"
RetryNetwork(status, att) == att < max_retries /\ status = "net"
LinearSleep(att) == backoff_factor * (att + 1)
RateLimitSleep(att) == backoff_factor * Pow2(att)

\* One iteration of the for loop of _request: the request, and the handling of
\* its response. After a `continue` the loop goes on while attempts are left;
\* a loop that runs out returns None.
Send(status, b) ==
    /\ cpc = "request"
    /\ outcome = "none"
    /\ responses' = Append(responses, status)
    /\ IF status = "200"
       THEN /\ outcome' = "returned"
            /\ body' = b
            /\ pages' = Append(pages, b)
            /\ UNCHANGED <<attempt, sleeps>>
       ELSE /\ pages' = pages
            /\ IF status \in {"429", "500"}
               THEN IF RetryRateLimit(status, attempt)
                    THEN /\ sleeps' = Append(sleeps, RateLimitSleep(attempt))
                         /\ attempt' = attempt + 1
                         /\ outcome' = IF attempt + 1 > max_retries THEN "returned" ELSE "none"
                         /\ body' = NoBody
                    ELSE /\ outcome' = "raised_http"
                         /\ UNCHANGED <<attempt, sleeps, body>>
               ELSE IF RetryNetwork(status, attempt)
                    THEN /\ sleeps' = Append(sleeps, network_retry_sleep)
                         /\ attempt' = attempt + 1
                         /\ outcome' = IF attempt + 1 > max_retries THEN "returned" ELSE "none"
                         /\ body' = NoBody
                    ELSE /\ outcome' = IF status = "net" THEN "raised_net" ELSE "raised_other"
                         /\ UNCHANGED <<attempt, sleeps, body>>
    /\ cpc' = IF outcome' = "none" THEN "request" ELSE "handle"
    /\ UNCHANGED <<fn, max_items, all_items, cursor, sent, ret>>
    /\ UNCHANGED <<ivars, kvars>>

\* The rest of the loop body of get_all_*, once _request has ended: a raised
\* exception (or a body that is not a dict) is caught and breaks the loop; an
\* empty page breaks; otherwise the page is appended and the cursor taken, and
\* a falsy cursor breaks (else the loop sleeps 0.3 s, which changes no state, and
\* goes back to its head). A break returns all[:max].
\* except Exception: what the loop's handler catches of what _request raises.
CatchesHttpOnly(o) == o = "raised_http"
PageCatches(o) == o \in {"raised_http", "raised_net", "raised_other"}

BreakOnIgnoresEmpty(raised, b) ==
    \/ raised
    \/ b = NoBody
    \/ ~Truthy(b.cursor)
BreakOn(raised, b) ==
    \/ raised
    \/ b = NoBody
    \/ b.items = <<>>
    \/ ~Truthy(b.cursor)

Handle ==
    /\ cpc = "handle"
    /\ LET raised == outcome # "returned"
           extend == ~raised /\ body # NoBody /\ body.items # <<>>
           all2 == IF extend THEN all_items \o body.items ELSE all_items
       IN /\ all_items' = all2
          /\ cursor' = IF extend THEN body.cursor ELSE cursor
          /\ IF raised /\ ~PageCatches(outcome)
             THEN /\ cpc' = "raised"
                  /\ ret' = ret
             ELSE IF BreakOn(raised, body)
             THEN /\ cpc' = "done"
                  /\ ret' = Take(all2, max_items)
             ELSE /\ cpc' = "while"
                  /\ ret' = ret
    /\ UNCHANGED <<fn, max_items, attempt, outcome, body, responses, sleeps, sent, pages>>
    /\ UNCHANGED <<ivars, kvars>>

ClientNext ==
    \/ While
    \/ \E s \in Statuses \ {"200"} : Send(s, NoBody)
    \/ \E b \in Bodies : Send("200", b)
    \/ Handle

(***************************************************************************)
(* The store (database/models.py, database/crud.py)                        *)
(***************************************************************************)

\* datetime.utcnow().
Now == clock

\* The columns of each table, and its primary key.
SeriesColumns == {"ticker", "title", "category", "frequency", "tags",
                  "settlement_sources", "created_at", "updated_at"}
EventColumns == {"event_ticker", "series_ticker", "title", "category", "status",
                 "created_at", "updated_at"}
MarketColumns == {"ticker", "event_ticker", "title", "subtitle", "yes_sub_title",
                  "no_sub_title", "market_type", "status", "result", "open_time",
                  "close_time", "expiration_time", "created_at", "updated_at",
                  "search_vector"}
ArticleColumns == {"id", "url", "title", "summary", "source", "published_at",
                   "fetched_at", "content_hash"}

\* A table is a function from key to row; a row is the record of the columns
\* that were ever given a value. links is a set of rows.
EmptyTable == [k \in {} |-> 0]
EmptyStore == [series |-> EmptyTable, events |-> EmptyTable, markets |-> EmptyTable,
               articles |-> EmptyTable, links |-> {}]

\* A session's transaction: the rows written and not yet committed (an overlay
\* on the committed store), the article keys deleted, and the ORM objects
\* merged into the session and not yet flushed.
EmptyTx == [series |-> EmptyTable, events |-> EmptyTable, markets |-> EmptyTable,
            articles |-> EmptyTable, links |-> {}, deleted |-> {}, merged |-> <<>>]

Put(t, k, row) == [x \in DOMAIN t \cup {k} |-> IF x = k THEN row ELSE t[x]]
Overlay(t, u) == [x \in DOMAIN t \cup DOMAIN u |-> IF x \in DOMAIN u THEN u[x] ELSE t[x]]
Without(t, ks) == [x \in DOMAIN t \ ks |-> t[x]]
Restrict(d, ks) == [k \in DOMAIN d \cap ks |-> d[k]]

\* What a session sees: the committed store with its own pending writes on top.
View(store, t) ==
    [series |-> Overlay(store.series, t.series),
     events |-> Overlay(store.events, t.events),
     markets |-> Overlay(store.markets, t.markets),
     articles |-> Without(Overlay(store.articles, t.articles), t.deleted),
     links |-> store.links \cup t.links]

\* INSERT ... ON CONFLICT (pk) DO UPDATE SET <every given column but pk>:
\* the columns given replace the stored ones, the others keep their value.
ReplaceRow(t, pk, data) == data
UpsertRow(t, pk, data) ==
    LET k == data[pk]
        old == IF k \in DOMAIN t THEN t[k] ELSE [c \in {} |-> 0]
    IN Overlay(old, data)

\* The statement raises when it names a column the table does not have (the
\* values given, or the conflict target), when the primary key is missing or
\* null, or when a foreign key has no row to point at.
StatementOk(cols, pk, target, data) ==
    /\ DOMAIN data \subseteq cols
    /\ target \in cols
    /\ pk \in DOMAIN data
    /\ data[pk] # None

FkOk(table, data, col) == Get(data, col) = None \/ Get(data, col) \in DOMAIN table

\* upsert_series
upsert_series_ok(v, data) == StatementOk(SeriesColumns, "ticker", "ticker", data)
upsert_series(t, v, data) ==
    [t EXCEPT !.series = Put(@, data.ticker, UpsertRow(v.series, "ticker", data))]

\* upsert_event
upsert_event_ok(v, data) ==
    /\ StatementOk(EventColumns, "event_ticker", "event_ticker", data)
    /\ FkOk(v.series, data, "series_ticker")
upsert_event(t, v, data) ==
    [t EXCEPT !.events = Put(@, data.event_ticker, UpsertRow(v.events, "event_ticker", data))]

\* upsert_market: the record is first cut down to the Market table's columns;
\* the conflict target is the column named market_ticker.
clean_data(market_data) == Restrict(market_data, MarketColumns)
upsert_market_ok(v, market_data) ==
    /\ StatementOk(MarketColumns, "ticker", "market_ticker", clean_data(market_data))
    /\ FkOk(v.events, clean_data(market_data), "event_ticker")
upsert_market(t, v, market_data) ==
    [t EXCEPT !.markets = Put(@, clean_data(market_data).ticker,
                              UpsertRow(v.markets, "ticker", clean_data(market_data)))]

\* upsert_markets_bulk: each record, cut down to the table's columns, becomes a
\* Market object merged into the session; nothing is written before the flush.
upsert_markets_bulk(t, markets) ==
    [t EXCEPT !.merged = @ \o [i \in DOMAIN markets |-> clean_data(markets[i])]]

\* upsert_article
upsert_article_ok(v, data) == StatementOk(ArticleColumns, "url", "url", data)
\* A new row gets its id from the column default (uuid4): one id per url.
upsert_article(t, v, data) ==
    LET row == UpsertRow(v.articles, "url", data)
    IN [t EXCEPT !.articles =
            Put(@, data.url, IF "id" \in DOMAIN row THEN row
                             ELSE Overlay(row, [id |-> "id-" \o data.url]))]

\* The flush of a commit writes the merged objects: each needs its primary
\* key and its parent event.
RECURSIVE Flush(_, _, _)
Flush(t, store, objs) ==
    IF objs = <<>> THEN [t EXCEPT !.merged = <<>>]
    ELSE LET o == Head(objs)
         IN Flush([t EXCEPT !.markets = Put(@, o.ticker,
                                            UpsertRow(View(store, t).markets, "ticker", o))],
                  store, Tail(objs))
FlushOk(t, store) ==
    \A i \in DOMAIN t.merged :
        /\ "ticker" \in DOMAIN t.merged[i]
        /\ t.merged[i].ticker # None
        /\ \/ Get(t.merged[i], "event_ticker") = None
           \/ Get(t.merged[i], "event_ticker") \in DOMAIN View(store, t).events

\* A commit that keeps only the rows written in its own transaction.
CommitPendingOnly(store, t) ==
    LET f == Flush(t, store, t.merged)
    IN [series |-> f.series, events |-> f.events, markets |-> f.markets,
        articles |-> f.articles, links |-> f.links]
\* session.commit(): flush, then the pending writes become the store's rows.
Commit(store, t) ==
    LET f == Flush(t, store, t.merged)
    IN [series |-> Overlay(store.series, f.series),
        events |-> Overlay(store.events, f.events),
        markets |-> Overlay(store.markets, f.markets),
        articles |-> Without(Overlay(store.articles, f.articles), f.deleted),
        links |-> store.links \cup f.links]

\* cleanup_stale_data: the articles fetched more than 30 days ago that no link
\* references (a NULL fetched_at compares as unknown: the row is kept).
retention_days == 30
thirty_days_ago == Now - retention_days
Stale(row) == "fetched_at" \in DOMAIN row /\ row.fetched_at < thirty_days_ago
LinkedIds(links) == {l.article_id : l \in links}
PurgedLinkedToo(v) == {k \in DOMAIN v.articles : Stale(v.articles[k])}
Purged(v) ==
    {k \in DOMAIN v.articles : Stale(v.articles[k]) /\ Get(v.articles[k], "id") \notin LinkedIds(v.links)}
cleanup_stale_data(t, v) == [t EXCEPT !.deleted = @ \cup Purged(v)]

(***************************************************************************)
(* ingest_kalshi_data (ingestion.py) and background_ingestion_loop         *)
(* (main.py)                                                               *)
(***************************************************************************)

\* The tasks that can run ingest_kalshi_data.
Procs == {"loop", "refresh"}

\* Bound of the ingestion model: the longest list a fetch returns.
MaxFeed == 2

\* Program constant: the scheduler's interval in seconds.
ingestion_interval == 600

\* Records as the sources hand them out.
EvA == [event_ticker |-> "E1", series_ticker |-> "S1", title |-> "Fed decision",
        category |-> "Economics", status |-> "open"]
EvB == [event_ticker |-> "E2", title |-> "Election", category |-> "Politics",
        status |-> "open"]
EvBad == [title |-> "No ticker", category |-> "Politics", status |-> "open"]
EventSamples == {EvA, EvB, EvBad}

MkA == [ticker |-> "M1", event_ticker |-> "E1", title |-> "Fed cuts rates", status |-> "open"]
MkB == [ticker |-> "M2", event_ticker |-> "E3", title |-> "Rain tomorrow", status |-> "open"]
MkNoEvent == [ticker |-> "M3", title |-> "Orphan", status |-> "open"]
MkBad == [ticker |-> "M4", event_ticker |-> "E1", status |-> "open"]
MarketSamples == {MkA, MkB, MkNoEvent, MkBad}

NewsA == [title |-> "Fed raises rates", link |-> "u1", source |-> "Reuters",
          published |-> None, summary |-> ""]
NewsB == [title |-> "Local bakery wins award", link |-> "u2", source |-> "NPR",
          published |-> "recent", summary |-> ""]
NewsSamples == {NewsA, NewsB}

\* The lists a fetch can return: up to MaxFeed distinct records, in any order.
Feeds(S) ==
    UNION {{q \in [1..n -> S] : \A i, j \in 1..n : i # j => q[i] # q[j]} : n \in 0..MaxFeed}

\* EmbeddingService.generate: one vector per text, in input order.
Emb(text) == <<"vec", text>>
generate(texts) == [i \in DOMAIN texts |-> Emb(texts[i])]

NoLocals == [events |-> <<>>, markets |-> <<>>, db_markets |-> <<>>,
             market_embeddings |-> <<>>, news_items |-> <<>>, news_embeddings |-> <<>>]
\* History of a cycle: the stages entered, the stage that failed, the log, whether
\* an exception left ingest_kalshi_data, the store as of the cycle's last commit,
\* the pending writes the except block dropped, and the loop's last sleep.
NoHist == [stages |-> <<>>, failed |-> None, logs |-> <<>>, escaped |-> FALSE,
           committed |-> EmptyStore, dropped |-> EmptyTx, slept |-> 0]

\* No call into the crud layer has been recorded.
NoCall == [op |-> "none"]

IngestInit ==
    /\ clock = 0
    /\ call = NoCall
    /\ db = EmptyStore
    /\ pc = [p \in Procs |-> IF p = "loop" THEN "LOOP" ELSE "IDLE"]
    /\ tx = [p \in Procs |-> EmptyTx]
    /\ loc = [p \in Procs |-> NoLocals]
    /\ hist = [p \in Procs |-> NoHist]

IngestIdle ==
    /\ clock = 0
    /\ call = NoCall
    /\ db = EmptyStore
    /\ pc = [p \in Procs |-> "IDLE"]
    /\ tx = [p \in Procs |-> EmptyTx]
    /\ loc = [p \in Procs |-> NoLocals]
    /\ hist = [p \in Procs |-> NoHist]

\* History bookkeeping.
Enter(h, stage) == [h EXCEPT !.stages = Append(@, stage)]
Log(h, entries) == [h EXCEPT !.logs = @ \o entries]
Fail(h, stage) == [h EXCEPT !.failed = stage]

\* A run of statements through the session, in order, up to the first that
\* raises: the statement at index inj (when inj is an index) fails in the
\* database; a statement that is not well formed raises by itself.
StmtOk(kind, v, data) ==
    CASE kind = "series" -> upsert_series_ok(v, data)
      [] kind = "event" -> upsert_event_ok(v, data)
      [] kind = "market" -> upsert_market_ok(v, data)
      [] kind = "article" -> upsert_article_ok(v, data)
StmtDo(kind, t, v, data) ==
    CASE kind = "series" -> upsert_series(t, v, data)
      [] kind = "event" -> upsert_event(t, v, data)
      [] kind = "market" -> upsert_market(t, v, data)
      [] kind = "article" -> upsert_article(t, v, data)

RECURSIVE Execute(_, _, _, _, _, _)
Execute(kind, t, store, datas, i, inj) ==
    IF i > Len(datas) THEN [tx |-> t, ok |-> TRUE]
    ELSE IF i = inj \/ ~StmtOk(kind, View(store, t), datas[i])
         THEN [tx |-> t, ok |-> FALSE]
         ELSE Execute(kind, StmtDo(kind, t, View(store, t), datas[i]), store, datas, i + 1, inj)

\* ---- background_ingestion_loop: while True: try: await ingest_kalshi_data()
StartCycle(p) ==
    /\ pc[p] = "LOOP"
    /\ pc' = [pc EXCEPT ![p] = "FETCH_EVENTS"]
    /\ tx' = [tx EXCEPT ![p] = EmptyTx]
    /\ loc' = [loc EXCEPT ![p] = NoLocals]
    /\ hist' = [hist EXCEPT ![p] = [NoHist EXCEPT !.committed = db]]
    /\ UNCHANGED db
    /\ UNCHANGED <<cvars, kvars>>

\* ---- 1. events = await client.get_all_events(max_events=200)
FetchEvents(p, feed) ==
    /\ pc[p] = "FETCH_EVENTS"
    /\ pc' = [pc EXCEPT ![p] = "PERSIST_SERIES"]
    /\ loc' = [loc EXCEPT ![p].events = feed]
    /\ hist' = [hist EXCEPT ![p] = Enter(@, "FETCH_EVENTS")]
    /\ UNCHANGED <<db, tx>>
    /\ UNCHANGED <<cvars, kvars>>

\* series_map: the first category seen for each truthy series_ticker, in
\* order of first appearance; one upsert_series record per entry.
RECURSIVE series_map(_, _)
series_map(events, seen) ==
    IF events = <<>> THEN <<>>
    ELSE LET e == Head(events)
             s == Get(e, "series_ticker")
         IN IF Truthy(s) /\ s \notin seen
            THEN <<[ticker |-> s, category |-> Get(e, "category"),
                    created_at |-> Now, updated_at |-> Now]>>
                 \o series_map(Tail(events), seen \cup {s})
            ELSE series_map(Tail(events), seen)

\* for ticker, category in series_map.items(): upsert_series(...); commit
PersistSeries(p, inj) ==
    /\ pc[p] = "PERSIST_SERIES"
    /\ LET datas == series_map(loc[p].events, {})
           r == Execute("series", tx[p], db, datas, 1, inj)
           ok == r.ok /\ inj # Len(datas) + 1
       IN /\ inj \in 0..Len(datas) + 1
          /\ IF ok
             THEN /\ db' = Commit(db, r.tx)
                  /\ tx' = [tx EXCEPT ![p] = EmptyTx]
                  /\ pc' = [pc EXCEPT ![p] = "PERSIST_EVENTS"]
                  /\ hist' = [hist EXCEPT ![p].committed = Commit(db, r.tx)]
             ELSE /\ db' = db
                  /\ tx' = [tx EXCEPT ![p] = r.tx]
                  /\ pc' = [pc EXCEPT ![p] = "EXCEPT"]
                  /\ hist' = [hist EXCEPT ![p] = Fail(@, "FETCH_EVENTS")]
    /\ UNCHANGED loc
    /\ UNCHANGED <<cvars, kvars>>

\* db_events: e["event_ticker"] raises KeyError on a record without the key.
db_event(e) ==
    [event_ticker |-> e.event_ticker, series_ticker |-> Get(e, "series_ticker"),
     title |-> Get(e, "title"), category |-> Get(e, "category"),
     status |-> Get(e, "status"), created_at |-> Now, updated_at |-> Now]
db_events_ok(events) == \A i \in DOMAIN events : "event_ticker" \in DOMAIN events[i]

\* for e_data in db_events: upsert_event(...); commit
PersistEvents(p, inj) ==
    /\ pc[p] = "PERSIST_EVENTS"
    /\ LET events == loc[p].events
           built == db_events_ok(events)
           datas == IF built THEN [i \in DOMAIN events |-> db_event(events[i])] ELSE <<>>
           r == Execute("event", tx[p], db, datas, 1, inj)
           ok == built /\ r.ok /\ inj # Len(datas) + 1
       IN /\ inj \in 0..Len(datas) + 1
          /\ IF ok
             THEN /\ db' = Commit(db, r.tx)
                  /\ tx' = [tx EXCEPT ![p] = EmptyTx]
                  /\ pc' = [pc EXCEPT ![p] = "FETCH_MARKETS"]
                  /\ hist' = [hist EXCEPT ![p].committed = Commit(db, r.tx)]
             ELSE /\ db' = db
                  /\ tx' = [tx EXCEPT ![p] = r.tx]
                  /\ pc' = [pc EXCEPT ![p] = "EXCEPT"]
                  /\ hist' = [hist EXCEPT ![p] = Fail(@, "FETCH_EVENTS")]
    /\ loc' = [loc EXCEPT ![p].events = <<>>]
    /\ UNCHANGED <<cvars, kvars>>

\* ---- 2. markets = await client.get_all_open_markets(max_markets=300)
FetchMarkets(p, feed) ==
    /\ pc[p] = "FETCH_MARKETS"
    /\ pc' = [pc EXCEPT ![p] = "ENSURE_PARENT_EVENTS"]
    /\ loc' = [loc EXCEPT ![p].markets = feed]
    /\ hist' = [hist EXCEPT ![p] = Enter(@, "FETCH_MARKETS")]
    /\ UNCHANGED <<db, tx>>
    /\ UNCHANGED <<cvars, kvars>>

\* ---- Upsert missing parent events first
market_event_tickers(markets) ==
    {Get(markets[i], "event_ticker") : i \in {j \in DOMAIN markets : Truthy(Get(markets[j], "event_ticker"))}}
placeholder(ticker) ==
    [event_ticker |-> ticker, title |-> "Event " \o ticker, created_at |-> Now, updated_at |-> Now]

RECURSIVE UpsertPlaceholders(_, _, _)
UpsertPlaceholders(t, store, tickers) ==
    IF tickers = {} THEN t
    ELSE LET k == CHOOSE x \in tickers : TRUE
         IN UpsertPlaceholders(upsert_event(t, View(store, t), placeholder(k)), store, tickers \ {k})

WarnAll(tag, keys) ==
    LET RECURSIVE W(_)
        W(ks) == IF ks = {} THEN <<>>
                 ELSE LET k == CHOOSE x \in ks : TRUE IN <<<<"warning", tag, k>>>> \o W(ks \ {k})
    IN W(keys)

\* for ticker in market_event_tickers: try: upsert_event(placeholder) except:
\* warning; then commit. A statement that fails in the database leaves the
\* PostgreSQL transaction aborted: the statements after it fail as well (each
\* caught and logged), and the commit of an aborted transaction is a rollback.
\* warned is the set of tickers whose upsert raised ({} when none did);
\* commit_fails is a commit that raises.
EnsureParentEvents(p, warned, commit_fails) ==
    /\ pc[p] = "ENSURE_PARENT_EVENTS"
    /\ LET tickers == market_event_tickers(loc[p].markets)
           t2 == IF warned = {} THEN UpsertPlaceholders(tx[p], db, tickers) ELSE tx[p]
           h2 == Log(Enter(hist[p], "ENSURE_PARENT_EVENTS"), WarnAll("lazy_event", warned))
       IN /\ warned \subseteq tickers
          /\ IF commit_fails
             THEN /\ db' = db
                  /\ tx' = [tx EXCEPT ![p] = t2]
                  /\ pc' = [pc EXCEPT ![p] = "EXCEPT"]
                  /\ hist' = [hist EXCEPT ![p] = Fail(h2, "ENSURE_PARENT_EVENTS")]
             ELSE /\ db' = Commit(db, t2)
                  /\ tx' = [tx EXCEPT ![p] = EmptyTx]
                  /\ pc' = [pc EXCEPT ![p] = "EMBED_MARKETS"]
                  /\ hist' = [hist EXCEPT ![p] = [h2 EXCEPT !.committed = Commit(db, t2)]]
    /\ UNCHANGED loc
    /\ UNCHANGED <<cvars, kvars>>

\* ---- market_texts = [m["title"] ...]; embeddings; the db_markets records
db_market(m, embedding) ==
    [market_ticker |-> m.ticker, event_ticker |-> m.event_ticker, title |-> m.title,
     subtitle |-> IF "subtitle" \in DOMAIN m THEN m.subtitle ELSE Get(m, "yes_sub_title"),
     yes_sub_title |-> Get(m, "yes_sub_title"), no_sub_title |-> Get(m, "no_sub_title"),
     market_type |-> Get(m, "market_type"), status |-> m.status,
     open_time |-> Get(m, "open_time"), close_time |-> Get(m, "close_time"),
     expiration_time |-> Get(m, "expiration_time"),
     created_at |-> Now, updated_at |-> Now, embedding |-> embedding,
     yes_ask |-> Get(m, "yes_ask"), no_ask |-> Get(m, "no_ask"),
     yes_bid |-> Get(m, "yes_bid"), no_bid |-> Get(m, "no_bid"),
     last_price |-> Get(m, "last_price"), volume |-> Get(m, "volume"),
     open_interest |-> Get(m, "open_interest")]

\* Whether the loop skips the market (no event_ticker).
Skipped(m) == ~Truthy(Get(m, "event_ticker"))
\* The keys the loop body reads with m[...]: a missing one raises KeyError.
BodyOk(m) ==
    IF Skipped(m) THEN "ticker" \in DOMAIN m
    ELSE {"ticker", "title", "status"} \subseteq DOMAIN m

\* for idx, m in enumerate(markets): the records built and the warnings
\* logged up to the first market that raises (ok = FALSE) or to the end.
RECURSIVE BuildMarkets(_, _, _)
BuildMarkets(markets, embeddings, idx) ==
    IF idx > Len(markets) THEN [rows |-> <<>>, logs |-> <<>>, ok |-> TRUE]
    ELSE LET m == markets[idx]
         IN IF ~BodyOk(m) THEN [rows |-> <<>>, logs |-> <<>>, ok |-> FALSE]
            ELSE LET rest == BuildMarkets(markets, embeddings, idx + 1)
                 IN IF Skipped(m)
                    THEN [rest EXCEPT !.logs = <<<<"warning", "no_event_ticker", m.ticker>>>> \o @]
                    ELSE [rest EXCEPT !.rows = <<db_market(m, embeddings[idx])>> \o @]

EmbedMarkets(p, embed_fails) ==
    /\ pc[p] = "EMBED_MARKETS"
    /\ LET markets == loc[p].markets
           texts_ok == \A i \in DOMAIN markets : "title" \in DOMAIN markets[i]
           embeddings == generate([i \in DOMAIN markets |-> markets[i].title])
           b == BuildMarkets(markets, embeddings, 1)
           h2 == Enter(hist[p], "EMBED_MARKETS")
       IN IF texts_ok /\ ~embed_fails /\ b.ok
          THEN /\ pc' = [pc EXCEPT ![p] = "PERSIST_MARKETS"]
               /\ loc' = [loc EXCEPT ![p].market_embeddings = embeddings,
                                     ![p].db_markets = b.rows]
               /\ hist' = [hist EXCEPT ![p] = Log(h2, b.logs)]
          ELSE /\ pc' = [pc EXCEPT ![p] = "EXCEPT"]
               /\ loc' = loc
               /\ hist' = [hist EXCEPT ![p] =
                              Fail(IF texts_ok /\ ~embed_fails THEN Log(h2, b.logs) ELSE h2,
                                   "EMBED_MARKETS")]
    /\ UNCHANGED <<db, tx>>
    /\ UNCHANGED <<cvars, kvars>>

\* ---- if db_markets: try: upsert_markets_bulk(...); commit
\* except: log the error and go on to the one-by-one retry.
PersistMarkets(p, commit_fails) ==
    /\ pc[p] = "PERSIST_MARKETS"
    /\ LET rows == loc[p].db_markets
           t2 == upsert_markets_bulk(tx[p], rows)
           h2 == Enter(hist[p], "PERSIST_MARKETS")
       IN IF rows = <<>>
          THEN /\ pc' = [pc EXCEPT ![p] = "FETCH_NEWS"]
               /\ hist' = [hist EXCEPT ![p] = h2]
               /\ UNCHANGED <<db, tx>>
          ELSE IF FlushOk(t2, db) /\ ~commit_fails
               THEN /\ db' = Commit(db, t2)
                    /\ tx' = [tx EXCEPT ![p] = EmptyTx]
                    /\ pc' = [pc EXCEPT ![p] = "FETCH_NEWS"]
                    /\ hist' = [hist EXCEPT ![p] = [h2 EXCEPT !.committed = Commit(db, t2)]]
               ELSE /\ db' = db
                    /\ tx' = [tx EXCEPT ![p] = t2]
                    /\ pc' = [pc EXCEPT ![p] = "FALLBACK"]
                    /\ hist' = [hist EXCEPT ![p] = Log(h2, <<<<"error", "bulk", "markets">>>>)]
    /\ UNCHANGED loc
    /\ UNCHANGED <<cvars, kvars>>

\* rollback; for m_data in db_markets: try: upsert_market; commit
\* except: log the market and roll back. failing is the set of indices whose
\* statement or commit fails in the database.
RECURSIVE OneByOne(_, _, _, _)
OneByOne(store, rows, i, failing) ==
    IF i > Len(rows) THEN [db |-> store, logs |-> <<>>]
    ELSE IF i \notin failing /\ upsert_market_ok(store, rows[i])
         THEN OneByOne(Commit(store, upsert_market(EmptyTx, store, rows[i])), rows, i + 1, failing)
         ELSE LET rest == OneByOne(store, rows, i + 1, failing)
              IN [rest EXCEPT !.logs = <<<<"error", "market", rows[i].market_ticker>>>> \o @]

Fallback(p, failing) ==
    /\ pc[p] = "FALLBACK"
    /\ failing \subseteq DOMAIN loc[p].db_markets
    /\ LET r == OneByOne(db, loc[p].db_markets, 1, failing)
       IN /\ db' = r.db
          /\ hist' = [hist EXCEPT ![p] = [Log(@, r.logs) EXCEPT !.committed = r.db]]
    /\ tx' = [tx EXCEPT ![p] = EmptyTx]
    /\ pc' = [pc EXCEPT ![p] = "FETCH_NEWS"]
    /\ UNCHANGED loc
    /\ UNCHANGED <<cvars, kvars>>

\* ---- 3. news_items = await fetch_all_news()
FetchNews(p, feed) ==
    /\ pc[p] = "FETCH_NEWS"
    /\ pc' = [pc EXCEPT ![p] = "EMBED_NEWS"]
    /\ loc' = [loc EXCEPT ![p].news_items = feed, ![p].db_markets = <<>>,
                          ![p].markets = <<>>, ![p].market_embeddings = <<>>]
    /\ hist' = [hist EXCEPT ![p] = Enter(@, "FETCH_NEWS")]
    /\ UNCHANGED <<db, tx>>
    /\ UNCHANGED <<cvars, kvars>>

\* news_embeddings = embed_service.generate([item.title ...])
EmbedNews(p, embed_fails) ==
    /\ pc[p] = "EMBED_NEWS"
    /\ IF embed_fails
       THEN /\ pc' = [pc EXCEPT ![p] = "EXCEPT"]
            /\ loc' = loc
            /\ hist' = [hist EXCEPT ![p] = Fail(Enter(@, "EMBED_NEWS"), "EMBED_NEWS")]
       ELSE /\ pc' = [pc EXCEPT ![p] = "PERSIST_NEWS"]
            /\ loc' = [loc EXCEPT ![p].news_embeddings =
                          generate([i \in DOMAIN loc[p].news_items |-> loc[p].news_items[i].title])]
            /\ hist' = [hist EXCEPT ![p] = Enter(@, "EMBED_NEWS")]
    /\ UNCHANGED <<db, tx>>
    /\ UNCHANGED <<cvars, kvars>>

\* The record handed to upsert_article for a news item.
article_data(item, embedding) ==
    [url |-> item.link, title |-> item.title, summary |-> item.summary,
     source |-> item.source,
     published_at |-> IF Truthy(item.published) THEN item.published ELSE Now,
     fetched_at |-> Now, embedding |-> embedding]

\* for idx, item in enumerate(news_items): upsert_article(...); then commit
PersistNews(p, inj) ==
    /\ pc[p] = "PERSIST_NEWS"
    /\ LET items == loc[p].news_items
           datas == [i \in DOMAIN items |-> article_data(items[i], loc[p].news_embeddings[i])]
           r == Execute("article", tx[p], db, datas, 1, inj)
           ok == r.ok /\ inj # Len(datas) + 1
           h2 == Enter(hist[p], "PERSIST_NEWS")
       IN /\ inj \in 0..Len(datas) + 1
          /\ IF ok
             THEN /\ db' = Commit(db, r.tx)
                  /\ tx' = [tx EXCEPT ![p] = EmptyTx]
                  /\ pc' = [pc EXCEPT ![p] = "RETAIN"]
                  /\ hist' = [hist EXCEPT ![p] = [h2 EXCEPT !.committed = Commit(db, r.tx)]]
             ELSE /\ db' = db
                  /\ tx' = [tx EXCEPT ![p] = r.tx]
                  /\ pc' = [pc EXCEPT ![p] = "EXCEPT"]
                  /\ hist' = [hist EXCEPT ![p] = Fail(h2, "PERSIST_NEWS")]
    /\ loc' = [loc EXCEPT ![p].news_items = <<>>, ![p].news_embeddings = <<>>]
    /\ UNCHANGED <<cvars, kvars>>

\* ---- 4. stats = await retention.cleanup_stale_data(session): the delete and
\* its commit.
Retain(p, fails) ==
    /\ pc[p] = "RETAIN"
    /\ LET t2 == cleanup_stale_data(tx[p], View(db, tx[p]))
           h2 == Enter(hist[p], "RETAIN")
       IN IF fails
          THEN /\ db' = db
               /\ tx' = [tx EXCEPT ![p] = t2]
               /\ pc' = [pc EXCEPT ![p] = "EXCEPT"]
               /\ hist' = [hist EXCEPT ![p] = Fail(h2, "RETAIN")]
          ELSE /\ db' = Commit(db, t2)
               /\ tx' = [tx EXCEPT ![p] = EmptyTx]
               /\ pc' = [pc EXCEPT ![p] = "FINALLY"]
               /\ hist' = [hist EXCEPT ![p] =
                              [Log(h2, <<<<"info", "cleanup", Cardinality(Purged(View(db, tx[p])))>>>>)
                                  EXCEPT !.committed = Commit(db, t2)]]
    /\ UNCHANGED loc
    /\ UNCHANGED <<cvars, kvars>>

\* session.rollback(): the pending writes are dropped, the store is untouched.
RollbackWrites(store, t) == [db |-> Commit(store, t), tx |-> EmptyTx]
session_rollback(store, t) == [db |-> store, tx |-> EmptyTx]

\* except Exception as e: logger.error("Ingestion failed"); await session.rollback()
Except(p) ==
    /\ pc[p] = "EXCEPT"
    /\ tx' = [tx EXCEPT ![p] = session_rollback(db, tx[p]).tx]
    /\ db' = session_rollback(db, tx[p]).db
    /\ pc' = [pc EXCEPT ![p] = "FINALLY"]
    /\ hist' = [hist EXCEPT ![p] = [Log(@, <<<<"error", "ingestion", hist[p].failed>>>>)
                                        EXCEPT !.dropped = tx[p]]]
    /\ loc' = [loc EXCEPT ![p] = NoLocals]
    /\ UNCHANGED <<cvars, kvars>>

\* finally: await client.close(); an exception raised here leaves
\* ingest_kalshi_data. The session's context manager closes the session.
Finally(p, close_raises) ==
    /\ pc[p] = "FINALLY"
    /\ pc' = [pc EXCEPT ![p] = "RETURNED"]
    /\ hist' = [hist EXCEPT ![p].escaped = close_raises]
    /\ tx' = [tx EXCEPT ![p] = EmptyTx]
    /\ loc' = [loc EXCEPT ![p] = NoLocals]
    /\ UNCHANGED db
    /\ UNCHANGED <<cvars, kvars>>

\* background_ingestion_loop: except Exception: print(...); then
\* await asyncio.sleep(600). Whether an exception that left
\* ingest_kalshi_data is caught by the loop.
LoopCatchesNothing(escaped) == FALSE
LoopCatches(escaped) == TRUE
LoopSleep(p) ==
    /\ p = "loop"
    /\ pc[p] = "RETURNED"
    /\ pc' = [pc EXCEPT ![p] = IF hist[p].escaped /\ ~LoopCatches(hist[p].escaped)
                               THEN "CRASHED" ELSE "SLEEP"]
    /\ hist' = [hist EXCEPT ![p].slept = ingestion_interval]
    /\ UNCHANGED <<db, tx, loc>>
    /\ UNCHANGED <<cvars, kvars>>

\* The sleep is over: back to the top of while True.
LoopWake(p) ==
    /\ p = "loop"
    /\ pc[p] = "SLEEP"
    /\ pc' = [pc EXCEPT ![p] = "LOOP"]
    /\ UNCHANGED <<db, tx, loc, hist>>
    /\ UNCHANGED <<cvars, kvars>>

Step(p) ==
    \/ StartCycle(p)
    \/ \E feed \in Feeds(EventSamples) : FetchEvents(p, feed)
    \/ \E inj \in 0..MaxFeed + 1 : PersistSeries(p, inj)
    \/ \E inj \in 0..MaxFeed + 1 : PersistEvents(p, inj)
    \/ \E feed \in Feeds(MarketSamples) : FetchMarkets(p, feed)
    \/ \E warned \in SUBSET {"E1", "E3"}, c \in BOOLEAN : EnsureParentEvents(p, warned, c)
    \/ \E f \in BOOLEAN : EmbedMarkets(p, f)
    \/ \E c \in BOOLEAN : PersistMarkets(p, c)
    \/ \E failing \in SUBSET (1..MaxFeed) : Fallback(p, failing)
    \/ \E feed \in Feeds(NewsSamples) : FetchNews(p, feed)
    \/ \E f \in BOOLEAN : EmbedNews(p, f)
    \/ \E inj \in 0..MaxFeed + 1 : PersistNews(p, inj)
    \/ \E f \in BOOLEAN : Retain(p, f)
    \/ Except(p)
    \/ \E r \in BOOLEAN : Finally(p, r)
    \/ LoopSleep(p)
    \/ LoopWake(p)

Init == IngestInit /\ ClientIdle
Next == Step("loop")
Spec == Init /\ [][Next]_vars
\* Every await of the loop eventually returns (requests time out after 30 s).
LiveSpec == Spec /\ WF_vars(Next)

ClientStart == ClientInit /\ IngestIdle
ClientSpec == ClientStart /\ [][ClientNext]_vars

(***************************************************************************)
(* The server (main.py): the background loop and POST /refresh on one      *)
(* event loop                                                              *)
(***************************************************************************)

\* force_refresh: try: await ingest_kalshi_data() -- the request handler
\* enters the same coroutine as the loop, with a session of its own.
force_refresh(p) ==
    /\ p = "refresh"
    /\ pc[p] = "IDLE"
    /\ pc' = [pc EXCEPT ![p] = "FETCH_EVENTS"]
    /\ tx' = [tx EXCEPT ![p] = EmptyTx]
    /\ loc' = [loc EXCEPT ![p] = NoLocals]
    /\ hist' = [hist EXCEPT ![p] = [NoHist EXCEPT !.committed = db]]
    /\ UNCHANGED db
    /\ UNCHANGED <<cvars, kvars>>

\* return {"status": "refreshed", ...}, or HTTPException(500) when the call
\* raised: the request is over.
RefreshResponse(p) ==
    /\ p = "refresh"
    /\ pc[p] = "RETURNED"
    /\ pc' = [pc EXCEPT ![p] = "IDLE"]
    /\ UNCHANGED <<db, tx, loc, hist>>
    /\ UNCHANGED <<cvars, kvars>>

\* The inputs of the two-task model: what each fetch returns; no database
\* failure is injected.
ServerEvents == {<<>>, <<EvA>>}
ServerMarkets == {<<>>, <<MkA>>}
ServerNews == {<<>>, <<NewsA>>}

\* One step of a task: the event loop runs a task from one await to the next.
ServerStep(p) ==
    \/ StartCycle(p)
    \/ force_refresh(p)
    \/ \E feed \in ServerEvents : FetchEvents(p, feed)
    \/ PersistSeries(p, 0)
    \/ PersistEvents(p, 0)
    \/ \E feed \in ServerMarkets : FetchMarkets(p, feed)
    \/ EnsureParentEvents(p, {}, FALSE)
    \/ EmbedMarkets(p, FALSE)
    \/ PersistMarkets(p, FALSE)
    \/ Fallback(p, {})
    \/ \E feed \in ServerNews : FetchNews(p, feed)
    \/ EmbedNews(p, FALSE)
    \/ PersistNews(p, 0)
    \/ Retain(p, FALSE)
    \/ Except(p)
    \/ Finally(p, FALSE)
    \/ LoopSleep(p)
    \/ LoopWake(p)
    \/ RefreshResponse(p)

ServerNext == \E p \in Procs : ServerStep(p)
ServerSpec == Init /\ [][ServerNext]_vars

(***************************************************************************)
(* The crud layer called directly (database/crud.py, database/retention.py,*)
(* news_matcher.match_articles_to_events): any sequence of calls, each     *)
(* followed by the caller's commit, or by its rollback when the call raised*)
(***************************************************************************)

\* Bound of the crud model: the latest day the clock reaches.
MaxClock == 60

\* The session of the caller.
Caller == "loop"

\* link_article_to_events: one row per ticker, with the score at the same
\* index when a (non-empty) list of scores has one, else NULL (no value).
link_row(article_id, ticker, relevance_scores, idx) ==
    IF idx \in DOMAIN relevance_scores
    THEN [article_id |-> article_id, event_ticker |-> ticker,
          relevance_score |-> relevance_scores[idx]]
    ELSE [article_id |-> article_id, event_ticker |-> ticker]

\* INSERT ... VALUES (rows) ON CONFLICT DO NOTHING: a row whose
\* (article_id, event_ticker) is already there is left out; an inserted row
\* gets created_at from the column default.
InsertAnyway(links, rows, i) ==
    links \cup {Overlay(rows[j], [created_at |-> Now]) : j \in DOMAIN rows}
RECURSIVE InsertLinks(_, _, _)
InsertLinks(links, rows, i) ==
    IF i > Len(rows) THEN links
    ELSE LET r == rows[i]
             there == \E l \in links : l.article_id = r.article_id
                                       /\ l.event_ticker = r.event_ticker
         IN InsertLinks(IF there THEN links
                        ELSE links \cup {Overlay(r, [created_at |-> Now])},
                        rows, i + 1)

ArticleIds(v) == {v.articles[k].id : k \in DOMAIN v.articles}
\* The statement raises when a row points at no article or at no event.
link_article_to_events_ok(v, article_id, event_tickers) ==
    event_tickers # <<>> =>
        /\ article_id \in ArticleIds(v)
        /\ \A i \in DOMAIN event_tickers : event_tickers[i] \in DOMAIN v.events
link_article_to_events(t, v, article_id, event_tickers, relevance_scores) ==
    IF event_tickers = <<>> THEN t
    ELSE [t EXCEPT !.links =
              InsertLinks(v.links,
                          [i \in DOMAIN event_tickers |->
                              link_row(article_id, event_tickers[i], relevance_scores, i)],
                          1)]
\* The value returned: result.rowcount, the rows inserted.
link_rowcount(t, v, article_id, event_tickers, relevance_scores) ==
    Cardinality(link_article_to_events(t, v, article_id, event_tickers,
                                       relevance_scores).links \ v.links)

\* match_articles_to_events: an article without a (non-empty) embedding
\* attribute is passed over; for any other the query is built from
\* Market.embedding, which the Market model does not have: AttributeError.
\* The link inserts after it are never reached.
HasEmbedding(article) == "embedding" \in DOMAIN article /\ article.embedding # <<>>
match_articles_to_events_ok(articles) ==
    \A i \in DOMAIN articles : ~HasEmbedding(articles[i])

\* A market record keyed by the table's own column name.
ByTicker(row) ==
    [k \in (DOMAIN row \ {"market_ticker"}) \cup {"ticker"} |->
        IF k = "ticker" THEN row.market_ticker ELSE row[k]]
MkPriced == [ticker |-> "M1", event_ticker |-> "E1", title |-> "Fed cuts rates",
             status |-> "open", yes_ask |-> 55, no_ask |-> 47, yes_bid |-> 53,
             no_bid |-> 45, volume |-> 1200, open_interest |-> 300]

\* The records the callers hand in, built as ingest_kalshi_data builds them.
SeriesRecords == Range(series_map(<<EvA>>, {}))
EventRecords == {db_event(EvA), placeholder("E1")}
MarketRecords == {db_market(MkA, Emb(MkA.title)),
                  ByTicker(db_market(MkPriced, Emb(MkPriced.title)))}
ArticleRecords ==
    {article_data(NewsA, Emb(NewsA.title))}
    \cup {Restrict(article_data(n, Emb(n.title)), ArticleColumns) : n \in NewsSamples}
LinkTickers == {<<>>, <<"E1">>, <<"E1", "E1">>}
\* Relevance scores, in hundredths.
LinkScores == {<<>>, <<40>>, <<100, 150>>}

CrudCalled(op, arg, ok, n) == [op |-> op, arg |-> arg, ok |-> ok, n |-> n]

\* upsert_series / upsert_event / upsert_market / upsert_article, then
\* session.commit(); session.rollback() when the call raised.
CallUpsert(kind, data) ==
    /\ LET v == View(db, tx[Caller])
           ok == StmtOk(kind, v, data)
       IN /\ db' = IF ok THEN Commit(db, StmtDo(kind, tx[Caller], v, data))
                         ELSE session_rollback(db, tx[Caller]).db
          /\ call' = CrudCalled(kind, data, ok, 0)
    /\ UNCHANGED <<pc, tx, loc, hist, clock>>
    /\ UNCHANGED cvars

\* upsert_markets_bulk, then session.commit(), whose flush raises for an
\* object without primary key or parent event.
CallBulk(markets) ==
    /\ LET t2 == upsert_markets_bulk(tx[Caller], markets)
           ok == FlushOk(t2, db)
       IN /\ db' = IF ok THEN Commit(db, t2) ELSE session_rollback(db, t2).db
          /\ call' = CrudCalled("bulk", markets, ok, Len(markets))
    /\ UNCHANGED <<pc, tx, loc, hist, clock>>
    /\ UNCHANGED cvars

\* link_article_to_events, then session.commit().
CallLink(article_id, event_tickers, relevance_scores) ==
    /\ LET v == View(db, tx[Caller])
           ok == link_article_to_events_ok(v, article_id, event_tickers)
           t2 == link_article_to_events(tx[Caller], v, article_id, event_tickers,
                                        relevance_scores)
       IN /\ db' = IF ok THEN Commit(db, t2) ELSE session_rollback(db, tx[Caller]).db
          /\ call' = CrudCalled("link",
                                [article_id |-> article_id, event_tickers |-> event_tickers,
                                 relevance_scores |-> relevance_scores],
                                ok,
                                IF ok THEN link_rowcount(tx[Caller], v, article_id,
                                                         event_tickers, relevance_scores)
                                ELSE 0)
    /\ UNCHANGED <<pc, tx, loc, hist, clock>>
    /\ UNCHANGED cvars

\* match_articles_to_events(session, articles): it commits by itself.
CallMatch(articles) ==
    /\ LET ok == match_articles_to_events_ok(articles)
       IN /\ db' = IF ok THEN Commit(db, tx[Caller]) ELSE session_rollback(db, tx[Caller]).db
          /\ call' = CrudCalled("match", articles, ok, 0)
    /\ UNCHANGED <<pc, tx, loc, hist, clock>>
    /\ UNCHANGED cvars

\* cleanup_stale_data(session): the delete and the function's own commit; it
\* returns the delete's rowcount as deleted_news.
CallCleanup ==
    /\ LET v == View(db, tx[Caller])
       IN /\ db' = Commit(db, cleanup_stale_data(tx[Caller], v))
          /\ call' = CrudCalled("cleanup", Purged(v), TRUE, Cardinality(Purged(v)))
    /\ UNCHANGED <<pc, tx, loc, hist, clock>>
    /\ UNCHANGED cvars

\* Thirty days pass.
Tick ==
    /\ clock + retention_days <= MaxClock
    /\ clock' = clock + retention_days
    /\ call' = CrudCalled("tick", clock, TRUE, 0)
    /\ UNCHANGED <<db, pc, tx, loc, hist>>
    /\ UNCHANGED cvars

\* Callers of the upserts.
CrudNext ==
    \/ \E data \in SeriesRecords : CallUpsert("series", data)
    \/ \E data \in EventRecords : CallUpsert("event", data)
    \/ \E data \in MarketRecords : CallUpsert("market", data)
    \/ \E data \in ArticleRecords : CallUpsert("article", data)
    \/ \E data \in MarketRecords : CallBulk(<<data>>)
    \/ Tick

CrudInit == IngestIdle /\ ClientIdle
CrudSpec == CrudInit /\ [][CrudNext]_vars

\* Callers of the article, link and retention operations.
NewsNext ==
    \/ CallUpsert("event", placeholder("E1"))
    \/ \E data \in ArticleRecords : CallUpsert("article", data)
    \/ \E id \in {"id-u1"}, ts \in LinkTickers, sc \in LinkScores : CallLink(id, ts, sc)
    \/ CallMatch(<<>>)
    \/ \E k \in DOMAIN db.articles : CallMatch(<<db.articles[k]>>)
    \/ CallMatch(<<[id |-> "id-u1", embedding |-> Emb("Fed raises rates")]>>)
    \/ CallCleanup
    \/ Tick

NewsSpec == CrudInit /\ [][NewsNext]_vars

\* Callers that fill every table of the store and run the retention purge.
PurgeNext ==
    \/ \E data \in SeriesRecords : CallUpsert("series", data)
    \/ \E data \in EventRecords : CallUpsert("event", data)
    \/ CallBulk(<<ByTicker(db_market(MkPriced, Emb(MkPriced.title)))>>)
    \/ \E n \in NewsSamples :
          CallUpsert("article", Restrict(article_data(n, Emb(n.title)), ArticleColumns))
    \/ CallLink("id-u1", <<"E1">>, <<40>>)
    \/ CallCleanup
    \/ Tick

PurgeSpec == CrudInit /\ [][PurgeNext]_vars

(***************************************************************************)
(* Properties of KalshiClient (checked under ClientSpec)                   *)
(***************************************************************************)

\* Page i was followed by another page request.
Followed(i) == i < Len(sent)
Last(q) == q[Len(q)]

\* C2: the fetch-all returns the first min(max, n) items, in order, of the
\* concatenation of the pages fetched; the first request carries no cursor and
\* every later one the cursor of the page before it; a page is followed by a
\* further request only if it had items and a cursor and the cap was not yet
\* reached.
C2_Pagination ==
    /\ cpc = "done" => ret = Take(Concat(pages), max_items)
    /\ Len(pages) <= Len(sent) /\ Len(sent) <= Len(pages) + 1
    /\ \A i \in DOMAIN sent :
          sent[i] = IF i = 1 THEN None ELSE pages[i - 1].cursor
    /\ \A i \in DOMAIN pages :
          Followed(i) => /\ pages[i].items # <<>>
                         /\ Truthy(pages[i].cursor)
                         /\ Len(Concat(Take(pages, i))) < max_items

\* C2 witness: page 3 is empty, and the call returned pages 1-2 below the cap
\* without asking for a fourth page.
C2_Witness ==
    /\ cpc = "done"
    /\ Len(pages) = 3 /\ Len(sent) = 3
    /\ pages[3].items = <<>> /\ Truthy(pages[3].cursor)
    /\ ret = pages[1].items \o pages[2].items
    /\ Len(ret) < max_items
    /\ sent[2] # sent[3]

\* C3: within one _request call a 429 on any of the first 3 requests is retried
\* after a sleep of 1s * 2^attempt; four 429s in a row sleep 1s, 2s, 4s and
\* then raise the HTTP error; a 200 ends the call returning that response's body.
C3_RateLimitBackoff ==
        /\ \A i \in DOMAIN responses :
              (responses[i] = "429" /\ i <= max_retries)
                  => Len(sleeps) >= i /\ sleeps[i] = 1000 * Pow2(i - 1)
        /\ responses = <<"429", "429", "429", "429">>
              => outcome = "raised_http" /\ sleeps = <<1000, 2000, 4000>>
        /\ (responses # <<>> /\ Last(responses) = "200")
              => outcome = "returned" /\ body = Last(pages)

\* C3 witness: the fourth consecutive 429 has been raised.
C3_Witness ==
    /\ responses = <<"429", "429", "429", "429">>
    /\ outcome = "raised_http"
    /\ sleeps = <<1000, 2000, 4000>>

C5_NoRetryOtherHttp ==
        \A i \in DOMAIN responses :
            responses[i] = "500"
                => /\ i = Len(responses)
                   /\ Len(sleeps) = i - 1
                   /\ outcome = "raised_http"

\* C5 witness: a 500 after a retried 429 is raised at once.
C5_Witness ==
    /\ responses = <<"429", "500">>
    /\ outcome = "raised_http"
    /\ sleeps = <<1000>>
    /\ cpc = "handle"

\* C6: the fetch-all never raises; after a page request that failed the call
\* has made no further request and returns the pages collected so far, cut to
\* the cap.
C6_FailedPageStops ==
    /\ cpc # "raised"
    /\ (cpc = "done" /\ outcome \notin {"none", "returned"})
          => /\ ret = Take(Concat(pages), max_items)
             /\ Len(sent) = Len(pages) + 1

\* C6 witness: the third page request failed after its retries and the call
\* returned the two pages it had.
C6_Witness ==
    /\ cpc = "done"
    /\ outcome = "raised_http"
    /\ Len(responses) = 4
    /\ Len(pages) = 2
    /\ ret = Concat(pages)
    /\ ret # <<>>

(***************************************************************************)
(* Properties of the ingestion cycle (checked under Spec and LiveSpec)     *)
(***************************************************************************)

\* The stage order of a run.
StageOrder == <<"FETCH_EVENTS", "FETCH_MARKETS", "ENSURE_PARENT_EVENTS", "EMBED_MARKETS",
                "PERSIST_MARKETS", "FETCH_NEWS", "EMBED_NEWS", "PERSIST_NEWS",
                "LINK_NEWS", "RETAIN", "DONE">>

BulkFailed(h) == <<"error", "bulk", "markets">> \in Range(h.logs)
MarketErrors(h) == {i \in DOMAIN h.logs : h.logs[i][1] = "error" /\ h.logs[i][2] = "market"}
\* A record of the batch with nothing wrong in it: it has its ticker and its
\* parent event is stored.
WellFormed(store, row) ==
    Truthy(row.market_ticker) /\ row.event_ticker \in DOMAIN store.events

C7_StageOrder ==
    \A p \in Procs :
        (pc[p] = "RETURNED" /\ hist[p].failed = None)
            => hist[p].stages \o <<"DONE">> = StageOrder

\* C8: after a stage has failed, the store holds exactly what the run's
\* commits left in it (the earlier stages' writes, none of the failing stage's
\* pending ones), the session holds no pending write once the handler has run,
\* and the run ended with the failing stage: no stage ran twice or after it.
C8_FailureKeepsCommitted ==
    \A p \in Procs :
        hist[p].failed # None =>
            /\ db = hist[p].committed
            /\ pc[p] # "EXCEPT" => tx[p] = EmptyTx
            /\ \A i, j \in DOMAIN hist[p].stages :
                  hist[p].stages[i] = hist[p].stages[j] => i = j
            /\ hist[p].stages[Len(hist[p].stages)] = hist[p].failed

\* C8 witness: the event stage failed after the series were committed; the
\* pending event write was dropped and the series are still stored.
C8_Witness ==
    /\ pc["loop"] = "FINALLY"
    /\ hist["loop"].failed = "FETCH_EVENTS"
    /\ "S1" \in DOMAIN db.series
    /\ "E1" \in DOMAIN hist["loop"].dropped.events
    /\ "E1" \notin DOMAIN db.events
    /\ tx["loop"] = EmptyTx

\* C9: every finished cycle has run the retention purge.
C9_RetainEveryCycle ==
    \A p \in Procs :
        pc[p] = "RETURNED" => "RETAIN" \in Range(hist[p].stages)

\* C10: whatever the outcome of a cycle, the loop then sleeps the fixed
\* interval and starts the next cycle: a cycle starts again and again.
C10_LoopGoesOn ==
    /\ []<>(pc["loop"] = "FETCH_EVENTS")
    /\ [][pc["loop"] = "RETURNED"
            => pc'["loop"] = "SLEEP" /\ hist'["loop"].slept = ingestion_interval]_vars
    /\ [][pc'["loop"] = "LOOP" => pc["loop"] = "SLEEP" /\ hist["loop"].slept = ingestion_interval]_vars

\* C10 witness: the loop sleeps after a cycle that failed in a stage and then
\* raised out of ingest_kalshi_data.
C10_Witness ==
    /\ pc["loop"] = "SLEEP"
    /\ hist["loop"].failed # None
    /\ hist["loop"].escaped
    /\ hist["loop"].slept = ingestion_interval

(***************************************************************************)
(* Properties of the server's two tasks (checked under ServerSpec)         *)
(***************************************************************************)

\* A task is inside ingest_kalshi_data: started and not yet returned.
InProgress(p) == pc[p] \notin {"IDLE", "LOOP", "SLEEP", "RETURNED", "CRASHED"}

\* C11: at no time are two executions of ingest_kalshi_data in progress, the
\* loop's and a forced refresh's.
C11_NoOverlap == ~(InProgress("loop") /\ InProgress("refresh"))

(***************************************************************************)
(* Properties of the market stages of a cycle (checked under Spec)         *)
(***************************************************************************)

\* The markets the run skipped with the "no event_ticker" warning.
SkippedTickers(h) ==
    {h.logs[i][3] : i \in {j \in DOMAIN h.logs :
                              h.logs[j][1] = "warning" /\ h.logs[j][2] = "no_event_ticker"}}

\* C12: once the market stages of a run are over, a market that was skipped
\* for want of an event_ticker is not in the store, and the other markets of
\* the batch are.
C12_SkipsOrphanKeepsRest ==
    \A p \in Procs :
        (pc[p] = "FETCH_NEWS" /\ SkippedTickers(hist[p]) # {}) =>
            /\ SkippedTickers(hist[p]) \cap DOMAIN db.markets = {}
            /\ \A i \in DOMAIN loc[p].db_markets :
                  loc[p].db_markets[i].market_ticker \in DOMAIN db.markets

\* C13: every stored market's event is stored, and when a run comes to write
\* its markets (in bulk or one by one) the event of each of them is already
\* committed.
C13_ParentsCommittedFirst ==
    /\ \A k \in DOMAIN db.markets : Get(db.markets[k], "event_ticker") \in DOMAIN db.events
    /\ \A p \in Procs :
          pc[p] \in {"PERSIST_MARKETS", "FALLBACK"} =>
              \A i \in DOMAIN loc[p].db_markets :
                  loc[p].db_markets[i].event_ticker \in DOMAIN db.events

\* A record without one of its required keys.
MalformedEvent(e) == "event_ticker" \notin DOMAIN e
MalformedMarket(m) == ~({"ticker", "title", "status"} \subseteq DOMAIN m)

\* C14: a batch with a malformed record in it is not aborted: with no other
\* failure, the stage that handles the batch goes on to the next stage.
C14_MalformedSkipped ==
    \A p \in Procs :
        /\ (pc[p] = "PERSIST_EVENTS"
               /\ \E i \in DOMAIN loc[p].events : MalformedEvent(loc[p].events[i]))
              => ENABLED (PersistEvents(p, 0) /\ pc'[p] = "FETCH_MARKETS")
        /\ (pc[p] = "EMBED_MARKETS"
               /\ \E i \in DOMAIN loc[p].markets : MalformedMarket(loc[p].markets[i]))
              => ENABLED (EmbedMarkets(p, FALSE) /\ pc'[p] = "PERSIST_MARKETS")

(***************************************************************************)
(* Properties of the upserts (checked under CrudSpec)                      *)
(***************************************************************************)

Upserts == {"series", "event", "market", "article"}
TableName(kind) ==
    CASE kind = "series" -> "series"
      [] kind = "event" -> "events"
      [] kind \in {"market", "bulk"} -> "markets"
      [] kind = "article" -> "articles"
TableOf(store, kind) == store[TableName(kind)]
KeyColumn(kind) ==
    CASE kind = "series" -> "ticker"
      [] kind = "event" -> "event_ticker"
      [] kind \in {"market", "bulk"} -> "ticker"
      [] kind = "article" -> "url"
\* The record of the last call, as it reaches the table.
Given(c) == IF c.op = "bulk" THEN clean_data(c.arg[1]) ELSE c.arg
\* Every row sits under its own natural identifier, and no two articles share
\* an id.
OneRowPerId ==
    /\ \A kind \in Upserts : \A k \in DOMAIN TableOf(db, kind) :
          TableOf(db, kind)[k][KeyColumn(kind)] = k
    /\ \A k1, k2 \in DOMAIN db.articles :
          db.articles[k1].id = db.articles[k2].id => k1 = k2
\* What a call that went through did to its table: the row of the record's
\* identifier now carries the record's fields, a row that was there keeps its
\* other fields (an article its id), no other row is added or touched.
UpdatedInPlace(kind, data) ==
    LET old == TableOf(db, kind)
        new == TableOf(db', kind)
        k == data[KeyColumn(kind)]
    IN /\ DOMAIN new = DOMAIN old \cup {k}
       /\ \A x \in DOMAIN old \ {k} : new[x] = old[x]
       /\ \A c \in DOMAIN data : new[k][c] = data[c]
       /\ k \in DOMAIN old =>
             \A c \in DOMAIN old[k] \ DOMAIN data : c \in DOMAIN new[k] /\ new[k][c] = old[k][c]

\* C15: the store holds at most one row per natural identifier; an upsert
\* that succeeds writes the record's fields into the one row of its
\* identifier (creating it only if it was absent), and a call that raises
\* changes nothing.
C15_OneRowPerIdentifier ==
    /\ []OneRowPerId
    /\ [][call'.op \in Upserts \cup {"bulk"} =>
            IF call'.ok
            THEN UpdatedInPlace(call'.op, Given(call'))
                 /\ \A f \in DOMAIN db : f # TableName(call'.op) => db'[f] = db[f]
            ELSE db' = db]_vars

\* C15 witness: the event E1, stored with its series, was sighted again as a
\* placeholder thirty days later: still one row, with the new title and the
\* old series.
C15_Witness ==
    /\ call.op = "event" /\ call.ok
    /\ call.arg.title = "Event E1"
    /\ DOMAIN db.events = {"E1"}
    /\ db.events["E1"].title = "Event E1"
    /\ Get(db.events["E1"], "series_ticker") = "S1"
    /\ db.events["E1"].updated_at = 30
    /\ DOMAIN db.articles = {"u1", "u2"}
    /\ "M1" \in DOMAIN db.markets

\* The record repeats what the stored row of its identifier holds, the two
\* timestamps aside.
SameFields(row, data) ==
    \A c \in DOMAIN data \ {"created_at", "updated_at"} :
        c \in DOMAIN row /\ row[c] = data[c]

\* C16: an upsert of a record whose fields are those of the stored row leaves
\* the row's identifier and created_at as they were; nothing but updated_at
\* changes.
C16_CreatedAtKept ==
    [][(/\ call'.op \in {"series", "event", "market", "bulk"}
        /\ call'.ok
        /\ Given(call')[KeyColumn(call'.op)] \in DOMAIN TableOf(db, call'.op)
        /\ SameFields(TableOf(db, call'.op)[Given(call')[KeyColumn(call'.op)]], Given(call')))
       => LET k == Given(call')[KeyColumn(call'.op)]
              old == TableOf(db, call'.op)[k]
              new == TableOf(db', call'.op)[k]
          IN /\ new[KeyColumn(call'.op)] = k
             /\ new.created_at = old.created_at
             /\ \A c \in DOMAIN old \ {"updated_at"} : c \in DOMAIN new /\ new[c] = old[c]]_vars

\* The fields of a market that a cycle refreshes.
RefreshedFields == {"yes_ask", "no_ask", "yes_bid", "no_bid", "volume",
                    "open_interest", "embedding"}

\* C17: once upsert_market or upsert_markets_bulk has persisted a market, the
\* stored row carries the prices, volume, open interest and embedding of the
\* record it was given.
C17_PricesRefreshed ==
    (call.op \in {"market", "bulk"} /\ call.ok) =>
        LET data == IF call.op = "bulk" THEN call.arg[1] ELSE call.arg
            row == db.markets[data.ticker]
        IN \A f \in RefreshedFields : f \in DOMAIN row /\ row[f] = data[f]

(***************************************************************************)
(* Properties of retention and of the article-event links (checked under   *)
(* NewsSpec)                                                               *)
(***************************************************************************)

\* The articles a step removed from the store.
Removed == DOMAIN db.articles \ DOMAIN db'.articles
\* An article some link of the store references.
Linked(store, k) == \E l \in store.links : l.article_id = store.articles[k].id

\* C18: cleanup_stale_data removes exactly the articles fetched more than 30
\* days before now that no link references, leaves every other row as it was
\* and reports the number of articles it removed; no other operation removes
\* an article.
C18_PurgesStaleUnlinked ==
    [][IF call'.op = "cleanup"
       THEN /\ Removed = {k \in DOMAIN db.articles :
                             /\ clock - db.articles[k].fetched_at > 30
                             /\ ~Linked(db, k)}
            /\ \A k \in DOMAIN db'.articles : k \in DOMAIN db.articles
                                              /\ db'.articles[k] = db.articles[k]
            /\ call'.n = Cardinality(Removed)
            /\ db'.links = db.links /\ db'.events = db.events
       ELSE Removed = {}]_vars

\* C18 witness: at day 60 the cleanup removed u2, fetched at day 0 and
\* unlinked, and kept u1, as old but linked.
C18_Witness ==
    /\ call.op = "cleanup" /\ call.n = 1 /\ call.arg = {"u2"}
    /\ clock = 60
    /\ DOMAIN db.articles = {"u1"}
    /\ db.articles["u1"].fetched_at = 0
    /\ Linked(db, "u1")

\* The links of one (article_id, event_ticker) pair.
SamePair(l1, l2) == l1.article_id = l2.article_id /\ l1.event_ticker = l2.event_ticker

\* C19: the store holds at most one link per (article_id, event_ticker), and
\* a link once stored stays as it is, score and created_at included,
\* whatever is inserted after it.
C19_OneLinkPerPair ==
    /\ [](\A l1, l2 \in db.links : SamePair(l1, l2) => l1 = l2)
    /\ [][\A l \in db.links : l \in db'.links]_vars

\* C19 witness: the pair (u1's id, E1), linked at day 0 with score 0.40, was
\* inserted again at day 30 with score 1.00: nothing was inserted and the
\* stored link is the old one.
C19_Witness ==
    /\ call.op = "link" /\ call.ok /\ call.n = 0
    /\ call.arg.event_tickers = <<"E1", "E1">>
    /\ call.arg.relevance_scores = <<100, 150>>
    /\ clock = 30
    /\ db.links = {[article_id |-> "id-u1", event_ticker |-> "E1",
                    relevance_score |-> 40, created_at |-> 0]}

\* C20: every stored link has a relevance score, between 0 and 1 (scores are
\* in hundredths).
C20_ScoreInUnitRange ==
    \A l \in db.links :
        "relevance_score" \in DOMAIN l /\ 0 <= l.relevance_score /\ l.relevance_score <= 100

(***************************************************************************)
(* calculate_market_heat (kalshi_client.py)                                *)
(***************************************************************************)

Min(a, b) == IF a <= b THEN a ELSE b
Abs(x) == IF x < 0 THEN -x ELSE x

\* Heat scores are exact multiples of 1/50000 (the divisors are 10000, 5000
\* and 50): a score is held as its number of such units.
HeatUnit == 50000

\* market.get(key, default) or default: a missing key, a None and a zero all
\* give the default (a None value is held as a missing key).
GetOr(market, key, default) ==
    IF key \in DOMAIN market /\ market[key] # 0 THEN market[key] ELSE default

\* A heat whose volume and open-interest scores have no cap.
HeatUncapped(market) ==
    GetOr(market, "volume", 0) * (HeatUnit \div 10000)
    + GetOr(market, "open_interest", 0) * (HeatUnit \div 5000)
    + (HeatUnit - Abs(GetOr(market, "yes_price", 50) - 50) * (HeatUnit \div 50)) * 3
\* A heat without the uncertainty score.
HeatWithoutUncertainty(market) ==
    Min(GetOr(market, "volume", 0) * (HeatUnit \div 10000), 10 * HeatUnit)
    + Min(GetOr(market, "open_interest", 0) * (HeatUnit \div 5000), 5 * HeatUnit)
calculate_market_heat(market) ==
    LET volume == GetOr(market, "volume", 0)
        open_interest == GetOr(market, "open_interest", 0)
        yes_price == GetOr(market, "yes_price", 50)
        volume_score == Min(volume * (HeatUnit \div 10000), 10 * HeatUnit)
        oi_score == Min(open_interest * (HeatUnit \div 5000), 5 * HeatUnit)
        price_uncertainty == HeatUnit - Abs(yes_price - 50) * (HeatUnit \div 50)
        uncertainty_score == price_uncertainty * 3
    IN volume_score + oi_score + uncertainty_score

\* The markets handed to calculate_market_heat: each of the three keys present
\* or missing.
Volumes == {0, 1, 5000, 9999, 10000, 99999, 100000, 100001, 250000}
OpenInterests == {0, 1, 2500, 5000, 24999, 25000, 25001, 60000}
YesPrices == 0..100
HeatMarkets ==
    [volume : Volumes, open_interest : OpenInterests, yes_price : YesPrices]
    \cup [volume : Volumes, open_interest : OpenInterests]
    \cup [volume : Volumes, yes_price : YesPrices]
    \cup [open_interest : OpenInterests, yes_price : YesPrices]
    \cup [volume : Volumes] \cup [open_interest : OpenInterests]
    \cup [yes_price : YesPrices] \cup {<<>>}

\* calculate_market_heat(market), called once.
CallHeat(market) ==
    /\ call = NoCall
    /\ call' = CrudCalled("heat", market, TRUE, calculate_market_heat(market))
    /\ UNCHANGED <<db, pc, tx, loc, hist, clock>>
    /\ UNCHANGED cvars

(***************************************************************************)
(* calculate_relevance_score (news_matcher.py)                             *)
(***************************************************************************)

\* For keyword sets the smaller of which has at most eight keywords a
\* relevance score is an exact multiple of 1/8400 (the divisors are 10, 20,
\* ..., 80): a score is held as its number of such units.
RelevanceUnit == 8400

\* A score that divides by the number of market keywords.
RelevanceByMarketSize(market_keywords, article_keywords) ==
    IF market_keywords \cap article_keywords = {} THEN 0
    ELSE LET match_count == Cardinality(market_keywords \cap article_keywords)
         IN Min(match_count * (10 + match_count)
                    * (RelevanceUnit \div (10 * Cardinality(market_keywords))),
                RelevanceUnit)
\* A score that is not capped at 1.0.
RelevanceUncapped(market_keywords, article_keywords) ==
    IF market_keywords \cap article_keywords = {} THEN 0
    ELSE LET match_count == Cardinality(market_keywords \cap article_keywords)
             smaller == Min(Cardinality(market_keywords), Cardinality(article_keywords))
         IN match_count * (10 + match_count) * (RelevanceUnit \div (10 * smaller))
\* proportion * (1 + 0.1 * match_count) is match_count * (10 + match_count)
\* over 10 * min(len, len).
calculate_relevance_score(market_keywords, article_keywords) ==
    IF market_keywords = {} \/ article_keywords = {} THEN 0
    ELSE LET intersection == market_keywords \cap article_keywords
         IN IF intersection = {} THEN 0
            ELSE LET match_count == Cardinality(intersection)
                     smaller == Min(Cardinality(market_keywords),
                                    Cardinality(article_keywords))
                     score == match_count * (10 + match_count)
                                  * (RelevanceUnit \div (10 * smaller))
                 IN Min(score, RelevanceUnit)

\* The keyword sets handed to calculate_relevance_score.
Keywords == {"fed", "rates", "election", "rain"}
KeywordSets == SUBSET Keywords

\* calculate_relevance_score(market_keywords, article_keywords), called once.
CallRelevance(market_keywords, article_keywords) ==
    /\ call = NoCall
    /\ call' = CrudCalled("relevance", <<market_keywords, article_keywords>>, TRUE,
                          calculate_relevance_score(market_keywords, article_keywords))
    /\ UNCHANGED <<db, pc, tx, loc, hist, clock>>
    /\ UNCHANGED cvars

\* Callers of the two scoring functions.
ScoreNext ==
    \/ \E market \in HeatMarkets : CallHeat(market)
    \/ \E A \in KeywordSets, B \in KeywordSets : CallRelevance(A, B)

ScoreSpec == CrudInit /\ [][ScoreNext]_vars

(***************************************************************************)
(* The reads of crud.py                                                    *)
(***************************************************************************)

\* The attributes of the mapped classes: their columns and relationships.
EventAttributes == EventColumns \cup {"series", "markets", "article_links"}
MarketAttributes == MarketColumns \cup {"event", "snapshots"}

\* Series.category and Event.category of an event's row in the outer join.
series_category(store, e) ==
    LET s == Get(store.events[e], "series_ticker")
    IN IF s \in DOMAIN store.series THEN Get(store.series[s], "category") ELSE None
event_category(store, e) == Get(store.events[e], "category")

\* func.coalesce(Series.category, Event.category)
effective_category(store, e) ==
    IF series_category(store, e) # None THEN series_category(store, e)
    ELSE event_category(store, e)

\* series_category or event_category
final_category(store, e) ==
    IF Truthy(series_category(store, e)) THEN series_category(store, e)
    ELSE event_category(store, e)

\* The attributes get_active_markets reads of each market it returns.
ActiveMarketReads ==
    {"market_ticker", "event_ticker", "title", "subtitle", "yes_sub_title", "status",
     "close_time", "yes_ask", "no_ask", "volume", "open_interest", "yes_bid", "no_bid"}

\* get_active_markets(session, category=category): the rows of the join that
\* pass the filter, and for each of them its dictionary; reading an attribute
\* the class does not have raises.
get_active_markets(store, category) ==
    LET rows == {k \in DOMAIN store.markets :
                    /\ Get(store.markets[k], "event_ticker") \in DOMAIN store.events
                    /\ Truthy(category) =>
                           effective_category(store, store.markets[k].event_ticker) = category}
        ok == rows = {} \/ ActiveMarketReads \subseteq MarketAttributes
    IN [ok |-> ok,
        result |-> IF ok
                   THEN {[market_ticker |-> k,
                          category |-> final_category(store, store.markets[k].event_ticker)]
                         : k \in rows}
                   ELSE {}]

\* The attributes get_hot_events reads of each event it returns and of each
\* market of such an event.
HotEventReads ==
    {"markets", "article_links", "event_ticker", "title", "category", "heat_score",
     "total_volume", "total_open_interest"}
HotMarketReads ==
    {"yes_ask", "market_ticker", "title", "subtitle", "yes_sub_title", "no_ask",
     "volume", "open_interest", "close_time"}

\* event.category or "Other"
reported_category(store, e) ==
    IF Truthy(event_category(store, e)) THEN event_category(store, e) ELSE "Other"

\* get_hot_events(session, category=category): the statement is ordered by
\* Event.heat_score, which is evaluated whatever the store holds.
get_hot_events(store, category) ==
    LET rows == {e \in DOMAIN store.events :
                    Truthy(category) => effective_category(store, e) = category}
        with_markets == {e \in rows : \E k \in DOMAIN store.markets :
                                          Get(store.markets[k], "event_ticker") = e}
        ok == /\ "heat_score" \in EventAttributes
              /\ rows # {} => HotEventReads \subseteq EventAttributes
              /\ with_markets # {} => HotMarketReads \subseteq MarketAttributes
    IN [ok |-> ok,
        result |-> IF ok
                   THEN {[event_ticker |-> e, category |-> reported_category(store, e)]
                         : e \in rows}
                   ELSE {}]

\* The category values a reader filters on; None is no filter.
Categories == {None, "Economics", "Politics"}

\* get_market(session, ticker): session.get(Market, ticker)
get_market(store, ticker) ==
    IF ticker \in DOMAIN store.markets THEN store.markets[ticker] ELSE None

(***************************************************************************)
(* Properties of matching, heat and categories                             *)
(***************************************************************************)

\* The events of the markets nearest to an article: with at most three markets
\* stored, the events of all of them.
NearestEvents(store) ==
    {store.markets[k].event_ticker : k \in DOMAIN store.markets}

\* C21: a pass of match_articles_to_events goes through; an article with an
\* embedding then has a link of relevance 1.0 to each event of its nearest
\* markets and at most three links from the pass, and an article without
\* embedding got no link from it.
C21_MatchLinksNearest ==
    call.op = "match" =>
        /\ call.ok
        /\ \A i \in DOMAIN call.arg :
              LET mine == {l \in db.links : l.article_id = call.arg[i].id}
              IN IF HasEmbedding(call.arg[i])
                 THEN /\ \A e \in NearestEvents(db) : \E l \in mine : l.event_ticker = e
                      /\ Cardinality({l \in mine : l.created_at = clock}) <= 3
                 ELSE \A l \in mine : l.created_at # clock \/ Get(l, "relevance_score") # 100

\* The per-event aggregates the reads report.
Aggregates == {"heat_score", "total_volume", "total_open_interest"}

\* C22: once a cycle is through its market stages, the stored event of each
\* market of the batch carries heat_score, total_volume and total_open_interest,
\* and get_hot_events returns from the stored values.
C22_HeatMaintained ==
    \A p \in Procs :
        pc[p] = "FETCH_NEWS" =>
            \A i \in DOMAIN loc[p].db_markets :
                LET e == loc[p].db_markets[i].event_ticker
                IN e \in DOMAIN db.events =>
                       /\ Aggregates \subseteq DOMAIN db.events[e]
                       /\ get_hot_events(db, None).ok

\* C23: with a market stored, both reads return, select exactly the rows whose
\* effective category (the series' category if present, else the event's) is
\* the one filtered on, and report that effective category.
C23_EffectiveCategory ==
    DOMAIN db.markets # {} =>
        \A c \in Categories :
            /\ get_active_markets(db, c).ok
            /\ get_hot_events(db, c).ok
            /\ \A r \in get_active_markets(db, c).result :
                  r.category = effective_category(db, db.markets[r.market_ticker].event_ticker)
            /\ \A r \in get_hot_events(db, c).result :
                  r.category = effective_category(db, r.event_ticker)

\* The identifiers stored in a table.
Ids(table) == DOMAIN table

HeatFormula(volume, open_interest, yes_price) ==
    Min(volume * (HeatUnit \div 10000), 10 * HeatUnit)
    + Min(open_interest * (HeatUnit \div 5000), 5 * HeatUnit)
    + (HeatUnit - Abs(yes_price - 50) * (HeatUnit \div 50)) * 3

\* The value of a key of the market, or the given value when it is missing.
Given0(market, key, missing) == IF key \in DOMAIN market THEN market[key] ELSE missing
\* The market with one key set.
With(market, key, value) ==
    [k \in DOMAIN market \cup {key} |-> IF k = key THEN value ELSE market[k]]

\* C25: the heat of a market is the formula at its volume, open interest and
\* yes price, a missing one taken as 0, 0 and 50.
C25_HeatFormula ==
    call.op = "heat" =>
        call.n = HeatFormula(Given0(call.arg, "volume", 0),
                             Given0(call.arg, "open_interest", 0),
                             Given0(call.arg, "yes_price", 50))

\* C26: the heat lies between 0 and 18, and a market that differs only by a
\* larger volume, or only by a larger open interest, has no smaller heat.
C26_HeatRangeMonotone ==
    call.op = "heat" =>
        /\ 0 <= call.n /\ call.n <= 18 * HeatUnit
        /\ \A v \in Volumes :
              v >= Given0(call.arg, "volume", 0) =>
                  calculate_market_heat(With(call.arg, "volume", v)) >= call.n
        /\ \A o \in OpenInterests :
              o >= Given0(call.arg, "open_interest", 0) =>
                  calculate_market_heat(With(call.arg, "open_interest", o)) >= call.n

\* The heat of a market with volume and open interest above their caps was
\* computed, and one of a market below them.
C26_Witness ==
    /\ call.op = "heat"
    /\ {"volume", "open_interest", "yes_price"} \subseteq DOMAIN call.arg
    /\ call.arg.volume > 100000 /\ call.arg.open_interest > 25000
    /\ call.arg.yes_price = 50
    /\ call.n = 18 * HeatUnit
    /\ calculate_market_heat(With(call.arg, "volume", 5000)) < call.n

\* C27: a market whose yes price is not 50 has a strictly lower heat than the
\* same market at yes price 50.
C27_PeakAtFifty ==
    (call.op = "heat" /\ "yes_price" \in DOMAIN call.arg /\ call.arg.yes_price # 50) =>
        call.n < calculate_market_heat(With(call.arg, "yes_price", 50))

\* The market of the scenario.
Scenario == [volume |-> 10000, open_interest |-> 5000, yes_price |-> 50]

\* C28 as stated: the heat of the scenario's market is 18.
C28_ScenarioEighteen ==
    (call.op = "heat" /\ call.arg = Scenario) => call.n = 18 * HeatUnit

\* C28: the heat of the market {volume: 10000, open_interest: 5000,
\* yes_price: 50} is 5 (1 + 1 + 3).
C28_ScenarioFive ==
    (call.op = "heat" /\ call.arg = Scenario) => call.n = 5 * HeatUnit

\* The heat of the scenario's market was computed.
C28_Witness == call.op = "heat" /\ call.arg = Scenario

\* C29: the relevance of (A, B) equals that of (B, A), and the relevance of a
\* non-empty set with itself is 1.0.
C29_Symmetric ==
    call.op = "relevance" =>
        /\ call.n = calculate_relevance_score(call.arg[2], call.arg[1])
        /\ (call.arg[1] = call.arg[2] /\ call.arg[1] # {}) => call.n = RelevanceUnit

\* The relevance of two sets of different sizes that share a keyword was
\* computed, and it is below 1.0.
C29_Witness ==
    /\ call.op = "relevance"
    /\ Cardinality(call.arg[1]) < Cardinality(call.arg[2])
    /\ call.arg[1] \cap call.arg[2] # {}
    /\ call.n < RelevanceUnit

\* C30: the relevance is 0 when a set is empty or the sets are disjoint;
\* otherwise it is the smaller of p * (1 + n/10) and 1.0, where n is the number
\* of shared keywords and p is n over the size of the smaller set; it always
\* lies between 0 and 1.
C30_RelevanceFormula ==
    call.op = "relevance" =>
        LET A == call.arg[1]
            B == call.arg[2]
            n == Cardinality(A \cap B)
            smaller == Min(Cardinality(A), Cardinality(B))
        IN /\ (A = {} \/ B = {} \/ A \cap B = {}) => call.n = 0
           /\ A \cap B # {} =>
                  \* call.n / RelevanceUnit = min(n/smaller * (10 + n)/10, 1)
                  IF n * (10 + n) <= 10 * smaller
                  THEN call.n * 10 * smaller = n * (10 + n) * RelevanceUnit
                  ELSE call.n = RelevanceUnit
           /\ 0 <= call.n /\ call.n <= RelevanceUnit

\* A relevance strictly between 0 and 1 was computed, of sets that share two
\* keywords.
C30_Witness ==
    /\ call.op = "relevance"
    /\ Cardinality(call.arg[1] \cap call.arg[2]) = 2
    /\ 0 < call.n /\ call.n < RelevanceUnit

(***************************************************************************)
(* categorize_market (kalshi_client.py)                                    *)
(***************************************************************************)

\* Text is held as strings; a character is a string of length 1.
UpperLetters == "ABCDEFGHIJKLMNOPQRSTUVWXYZ"
LowerLetters == "abcdefghijklmnopqrstuvwxyz"
Char(s, i) == SubSeq(s, i, i)
LowerChar(c) ==
    IF \E i \in 1..Len(UpperLetters) : Char(UpperLetters, i) = c
    THEN Char(LowerLetters, CHOOSE i \in 1..Len(UpperLetters) : Char(UpperLetters, i) = c)
    ELSE c

\* str.lower().
RECURSIVE lower(_)
lower(s) == IF s = "" THEN "" ELSE LowerChar(Char(s, 1)) \o lower(SubSeq(s, 2, Len(s)))

\* kw in s: kw is a substring of s.
Contains(s, kw) ==
    \E i \in 1..(Len(s) - Len(kw) + 1) : SubSeq(s, i, i + Len(kw) - 1) = kw

\* The two tables, in the order the dict literals list their keys.
category_map ==
    << <<"politics", "Politics">>, <<"economics", "Economy">>, <<"financial", "Economy">>,
       <<"fed", "Economy">>, <<"climate", "Climate">>, <<"weather", "Weather">>,
       <<"sports", "Sports">>, <<"entertainment", "Entertainment">>,
       <<"tech", "Technology">>, <<"science", "Science">>, <<"crypto", "Crypto">>,
       <<"world", "World">> >>

title_keywords ==
    << <<"Politics", <<"trump", "biden", "election", "congress", "senate", "president",
                       "governor", "vote">> >>,
       <<"Economy", <<"fed", "inflation", "gdp", "unemployment", "rate", "recession",
                      "jobs", "cpi">> >>,
       <<"Weather", <<"temperature", "hurricane", "rain", "snow", "weather", "storm">> >>,
       <<"Sports", <<"nfl", "nba", "mlb", "super bowl", "championship", "game", "match">> >>,
       <<"Technology", <<"ai", "openai", "google", "apple", "microsoft", "tech">> >>,
       <<"Crypto", <<"bitcoin", "ethereum", "crypto", "btc", "eth">> >>,
       <<"Entertainment", <<"oscar", "emmy", "movie", "film", "grammy", "album">> >> >>

\* for key, value in category_map.items(): if key in category: return value
\* (None when the loop ends without returning).
RECURSIVE CategoryLoop(_, _)
CategoryLoop(category, i) ==
    IF i > Len(category_map) THEN None
    ELSE IF Contains(category, category_map[i][1]) THEN category_map[i][2]
    ELSE CategoryLoop(category, i + 1)

\* any(kw in title for kw in keywords)
AnyKeyword(title, keywords) == \E k \in DOMAIN keywords : Contains(title, keywords[k])

\* for cat, keywords in title_keywords.items(): if any(...): return cat
RECURSIVE TitleLoop(_, _)
TitleLoop(title, i) ==
    IF i > Len(title_keywords) THEN None
    ELSE IF AnyKeyword(title, title_keywords[i][2]) THEN title_keywords[i][1]
    ELSE TitleLoop(title, i + 1)

\* A bug categorize_market could have: the title keywords are tried first.
categorize_title_first(market) ==
    LET category == lower(IF Get(market, "category") = None THEN "" ELSE market.category)
        title == lower(IF "title" \in DOMAIN market THEN market.title ELSE "")
    IN IF TitleLoop(title, 1) # None THEN TitleLoop(title, 1)
       ELSE IF CategoryLoop(category, 1) # None THEN CategoryLoop(category, 1)
       ELSE "Other"

categorize_market(market) ==
    LET category_val == Get(market, "category")
        category == lower(IF category_val = None THEN "" ELSE category_val)
        title == lower(IF "title" \in DOMAIN market THEN market.title ELSE "")
    IN IF CategoryLoop(category, 1) # None THEN CategoryLoop(category, 1)
       ELSE IF TitleLoop(title, 1) # None THEN TitleLoop(title, 1)
       ELSE "Other"

\* The category fields and titles the callers pass.
CategoryValues ==
    {None, "", "Economics", "Economy", "Politics", "World Politics", "FEDERAL",
     "Financials", "Climate and Weather", "Technology", "Crypto", "Science",
     "Companies"}
TitleValues ==
    {"", "Will Trump fire the Fed chair?", "Will it rain in NYC?", "Bitcoin above 100k?",
     "Super Bowl winner", "Who wins the Oscar for best film?", "GDP growth in Q3",
     "Will OpenAI release GPT-6?", "Who is next?"}
TopicMarkets ==
    {[title |-> t] : t \in TitleValues}
        \cup {[title |-> t, category |-> c] : t \in TitleValues, c \in CategoryValues}
        \cup {[category |-> c] : c \in CategoryValues}

CallCategorize(market) ==
    /\ call = NoCall
    /\ call' = CrudCalled("categorize", market, TRUE, categorize_market(market))
    /\ UNCHANGED <<db, pc, tx, loc, hist, clock>>
    /\ UNCHANGED cvars

(***************************************************************************)
(* group_markets_by_topic (news_matcher.py) and get_topics (main.py)       *)
(***************************************************************************)

\* list.sort(key=lambda x: x[key], reverse=True): descending by the key, rows
\* with equal keys keeping their order (InsertLast: a sort that leaves the
\* list as it is).
InsertLast(sorted, x, key) == Append(sorted, x)
InsertDesc(sorted, x, key) ==
    LET k == Cardinality({i \in DOMAIN sorted : sorted[i][key] >= x[key]})
    IN SubSeq(sorted, 1, k) \o <<x>> \o SubSeq(sorted, k + 1, Len(sorted))
RECURSIVE SortDesc(_, _)
SortDesc(rows, key) ==
    IF rows = <<>> THEN <<>>
    ELSE InsertDesc(SortDesc(SubSeq(rows, 1, Len(rows) - 1), key), rows[Len(rows)], key)

\* The topics dict is held as the sequence of its entries in insertion order,
\* the key of an entry in its field name.
TopicIndex(topics, category) == {i \in DOMAIN topics : topics[i].name = category}

\* One iteration of "for market in markets".
AddMarket(topics, market) ==
    LET category == categorize_market(market)
        heat == calculate_market_heat(market)
        known == IF TopicIndex(topics, category) = {}
                 THEN Append(topics, [name |-> category, markets |-> <<>>,
                                      total_heat |-> 0, total_volume |-> 0])
                 ELSE topics
        i == CHOOSE i \in TopicIndex(known, category) : TRUE
        market_data == With(With(market, "heat_score", heat), "category", category)
    IN [known EXCEPT ![i] =
           [name |-> category,
            markets |-> Append(@.markets, market_data),
            total_heat |-> @.total_heat + heat,
            total_volume |-> @.total_volume + GetOr(market, "volume", 0)]]

RECURSIVE GroupLoop(_, _, _)
GroupLoop(markets, i, topics) ==
    IF i > Len(markets) THEN topics
    ELSE GroupLoop(markets, i + 1, AddMarket(topics, markets[i]))

group_markets_by_topic(markets) ==
    LET topics == GroupLoop(markets, 1, <<>>)
    IN [i \in DOMAIN topics |->
           [topics[i] EXCEPT !.markets = SortDesc(@, "heat_score")]]

\* round(x, 2) of a heat, in hundredths: to the nearest, a tie to the even one.
round2(heat) ==
    LET unit == HeatUnit \div 100
        q == heat \div unit
        r == heat % unit
    IN IF 2 * r < unit \/ (2 * r = unit /\ q % 2 = 0) THEN q ELSE q + 1

\* get_topics, given the market dicts it reads.
get_topics(markets) ==
    LET annotated == [i \in DOMAIN markets |->
            LET scored == With(markets[i], "heat_score", calculate_market_heat(markets[i]))
            IN With(scored, "category", categorize_market(scored))]
        topics == group_markets_by_topic(annotated)
        top(m) == [ticker |-> m.ticker,
                   title |-> m.title,
                   yes_price |-> IF "yes_price" \in DOMAIN m THEN m.yes_price ELSE 50,
                   volume |-> IF "volume" \in DOMAIN m THEN m.volume ELSE 0,
                   heat_score |-> round2(m.heat_score)]
        result == [i \in DOMAIN topics |->
            [name |-> topics[i].name,
             market_count |-> Len(topics[i].markets),
             total_volume |-> topics[i].total_volume,
             total_heat |-> round2(topics[i].total_heat),
             top_markets |-> [j \in 1..Min(5, Len(topics[i].markets)) |->
                                 top(topics[i].markets[j])]]]
    IN SortDesc(result, "total_heat")

\* The market dicts the callers pass.
GroupMarkets ==
    {[ticker |-> "M1", title |-> "Will Trump fire the Fed chair?", category |-> "Economics",
      volume |-> 10000, open_interest |-> 5000, yes_price |-> 50],
     [ticker |-> "M2", title |-> "Will it rain in NYC?", volume |-> 250000, yes_price |-> 0],
     [ticker |-> "M3", title |-> "GDP growth in Q3", open_interest |-> 2500, yes_price |-> 90],
     [ticker |-> "M4", title |-> "Will Trump fire the Fed chair?", volume |-> 5000,
      open_interest |-> 25000],
     [ticker |-> "M5", title |-> "Who is next?", category |-> "Companies", volume |-> 1,
      yes_price |-> 50],
     [ticker |-> "M6", title |-> "Bitcoin above 100k?", category |-> "Crypto", volume |-> 2,
      yes_price |-> 50]}
MaxGroup == 3
GroupLists == UNION {[1..n -> GroupMarkets] : n \in 0..MaxGroup}

CallGroup(markets) ==
    /\ call = NoCall
    /\ call' = CrudCalled("group", markets, TRUE, group_markets_by_topic(markets))
    /\ UNCHANGED <<db, pc, tx, loc, hist, clock>>
    /\ UNCHANGED cvars

CallTopics(markets) ==
    /\ call = NoCall
    /\ call' = CrudCalled("topics", markets, TRUE, get_topics(markets))
    /\ UNCHANGED <<db, pc, tx, loc, hist, clock>>
    /\ UNCHANGED cvars

(***************************************************************************)
(* extract_keywords and match_news_to_market (news_matcher.py)             *)
(***************************************************************************)

stop_words ==
    {"the", "a", "an", "and", "or", "but", "in", "on", "at", "to", "for",
     "of", "with", "by", "from", "is", "are", "was", "were", "be", "been",
     "being", "have", "has", "had", "do", "does", "did", "will", "would",
     "could", "should", "may", "might", "must", "shall", "can", "need",
     "this", "that", "these", "those", "it", "its", "as", "if", "when",
     "than", "so", "no", "not", "only", "very", "just", "also", "into",
     "over", "such", "through", "after", "before", "between", "under",
     "again", "there", "about", "out", "up", "down", "more", "most", "other",
     "some", "any", "all", "both", "each", "few", "many", "much", "own",
     "same", "new", "first", "last", "long", "great", "little", "market",
     "markets", "price", "prices", "higher", "lower", "yes", "year", "years",
     "today", "yesterday", "tomorrow", "week", "month"}

\* \w after lower(): a letter, a digit or the underscore.
WordChars == LowerLetters \o "0123456789_"
IsWordChar(c) == \E i \in 1..Len(WordChars) : Char(WordChars, i) = c

\* re.sub(r'[^\w\s]', ' ', text)
RECURSIVE Clean(_)
Clean(text) ==
    IF text = "" THEN ""
    ELSE (IF IsWordChar(Char(text, 1)) \/ Char(text, 1) = " " THEN Char(text, 1) ELSE " ")
             \o Clean(SubSeq(text, 2, Len(text)))

\* text.split(), as the set of the words: word is the word being read.
RECURSIVE split(_, _)
split(text, word) ==
    IF text = "" THEN (IF word = "" THEN {} ELSE {word})
    ELSE IF Char(text, 1) = " "
         THEN (IF word = "" THEN {} ELSE {word}) \cup split(SubSeq(text, 2, Len(text)), "")
         ELSE split(SubSeq(text, 2, Len(text)), word \o Char(text, 1))

extract_keywords(text) ==
    {w \in split(Clean(lower(text)), "") : Len(w) > 2 /\ w \notin stop_words}

\* score > 0.15 (Passes: a threshold of 0)
PassesIfPositive(score) == score > 0
Passes(score) == score * 100 > 15 * RelevanceUnit

\* round(score, 3), in thousandths: to the nearest, a tie to the even one.
round3(score) ==
    LET q == (score * 1000) \div RelevanceUnit
        r == (score * 1000) % RelevanceUnit
    IN IF 2 * r < RelevanceUnit \/ (2 * r = RelevanceUnit /\ q % 2 = 0) THEN q ELSE q + 1

\* f"{d.get(key, '')}": the value as text, None printing as "None".
Fmt(d, key) == IF key \in DOMAIN d THEN d[key] ELSE ""

\* market_text and article_text.
market_text(market) ==
    Fmt(market, "title") \o " " \o Fmt(market, "subtitle") \o " " \o Fmt(market, "category")
article_text(article) == Fmt(article, "title") \o " " \o Fmt(article, "summary")

\* for article in articles: ... if score > 0.15: matches.append(...)
RECURSIVE MatchLoop(_, _, _, _)
MatchLoop(market_keywords, articles, i, matches) ==
    IF i > Len(articles) THEN matches
    ELSE LET article == articles[i]
             article_keywords == extract_keywords(article_text(article))
             score == calculate_relevance_score(market_keywords, article_keywords)
         IN MatchLoop(market_keywords, articles, i + 1,
                IF Passes(score)
                THEN Append(matches, [title |-> Fmt(article, "title"),
                                      link |-> Fmt(article, "link"),
                                      source |-> Fmt(article, "source"),
                                      published |-> Get(article, "published"),
                                      relevance_score |-> round3(score)])
                ELSE matches)

match_news_to_market(market, articles, max_matches) ==
    LET market_keywords == extract_keywords(market_text(market))
        matches == MatchLoop(market_keywords, articles, 1, <<>>)
    IN Take(SortDesc(matches, "relevance_score"), max_matches)

\* The markets, articles and limits the callers pass.
NewsMarkets ==
    {[title |-> "Will the Fed cut interest rates in March?", subtitle |-> "",
      category |-> "Economics"],
     [title |-> "Will Congress pass the budget resolution before the October shutdown deadline?",
      category |-> None],
     [ticker |-> "M9"]}
NewsArticles ==
    {[title |-> "Fed holds rates steady", summary |-> "Powell signals patience",
      link |-> "u1", source |-> "Reuters", published |-> "2026-01-05"],
     [title |-> "Rain expected tomorrow", summary |-> "", link |-> "u2"],
     [title |-> "Shutdown looms over national parks",
      summary |-> "Visitors rush to see autumn foliage across mountain trails",
      link |-> "u3", source |-> "AP"],
     [title |-> "Budget airlines cut fares for winter holiday travel", link |-> "u4"],
     [title |-> "The Fed and the rates: what is new this week?", summary |-> "It is up to us",
      link |-> "u5"]}
MaxArticles == 2
ArticleLists == UNION {[1..n -> NewsArticles] : n \in 0..MaxArticles}
MatchLimits == {1, 3}

CallMatchNews(market, articles, max_matches) ==
    /\ call = NoCall
    /\ call' = CrudCalled("match_news",
                          [market |-> market, articles |-> articles, max_matches |-> max_matches],
                          TRUE, match_news_to_market(market, articles, max_matches))
    /\ UNCHANGED <<db, pc, tx, loc, hist, clock>>
    /\ UNCHANGED cvars

(***************************************************************************)
(* Properties of the placeholder events and the market records             *)
(***************************************************************************)

\* C34: the step that upserts the placeholder events and commits them leaves
\* the title, category and status of every event already stored as they were.
C34_PlaceholderKeepsRealEvent ==
    [][\A p \in Procs :
          (pc[p] = "ENSURE_PARENT_EVENTS" /\ pc'[p] = "EMBED_MARKETS") =>
              \A e \in DOMAIN db.events :
                  /\ e \in DOMAIN db'.events
                  /\ Get(db'.events[e], "title") = Get(db.events[e], "title")
                  /\ Get(db'.events[e], "category") = Get(db.events[e], "category")
                  /\ Get(db'.events[e], "status") = Get(db.events[e], "status")]_vars

\* The records of a call of upsert_market or upsert_markets_bulk.
MarketsGiven ==
    IF call.op = "market" THEN {call.arg}
    ELSE IF call.op = "bulk" THEN Range(call.arg) ELSE {}

\* C35: after upsert_market or upsert_markets_bulk of a record built by
\* ingestion whose event is stored, the call has gone through and get_market
\* of the record's ticker returns the record.
C35_StoredUnderTicker ==
    \A m \in MarketsGiven :
        ("market_ticker" \in DOMAIN m /\ m.event_ticker \in DOMAIN db.events) =>
            /\ call.ok
            /\ get_market(db, m.market_ticker) # None
            /\ get_market(db, m.market_ticker).title = m.title

(***************************************************************************)
(* Termination of KalshiClient (checked under ClientSpec)                  *)
(***************************************************************************)

\* C36: a _request call makes at most 4 HTTP requests, whatever the responses;
\* after the fourth it has ended; it ends by returning the body of a response
\* or by raising, never by returning without a response.
C36_RequestEnds ==
    /\ Len(responses) <= max_retries + 1
    /\ Len(responses) = max_retries + 1 => outcome # "none"
    /\ (outcome = "none" /\ cpc = "request") => attempt = Len(responses)
    /\ outcome = "returned" => (body # NoBody /\ Last(responses) = "200" /\ body = Last(pages))
    /\ outcome \in {"none", "returned", "raised_http", "raised_net", "raised_other"}

\* C36 witness: a call that met rate limits and a network error returned the
\* body of its fourth response.
C36_Witness ==
    /\ responses = <<"429", "net", "429", "200">>
    /\ outcome = "returned"
    /\ body # NoBody

\* C37: the fetch-all makes at most as many page requests as its item cap:
\* every page request but the last added at least one item, also when the
\* server hands out the same cursor again and again.
C37_PagesBoundedByCap ==
    /\ Len(sent) <= max_items
    /\ Len(all_items) >= Len(sent) - 1
    /\ cpc = "while" => Len(all_items) >= Len(sent)

\* C37 witness: the server returned a one-item page with the same cursor three
\* times and the call ended at its cap of three items.
C37_Witness ==
    /\ cpc = "done"
    /\ max_items = 3
    /\ Len(pages) = 3 /\ Len(sent) = 3
    /\ \A i \in DOMAIN pages : Len(pages[i].items) = 1 /\ pages[i].cursor = pages[1].cursor
    /\ Truthy(pages[1].cursor)
    /\ Len(ret) = 3

(***************************************************************************)
(* Properties of the embeddings and the links                              *)
(***************************************************************************)

\* The record carries the vector generated from its own title.
OwnEmbedding(record) == Get(record, "embedding") = Emb(record.title)

C39_LinksReferenceRows ==
    \A l \in db.links :
        /\ l.article_id \in ArticleIds(db)
        /\ l.event_ticker \in DOMAIN db.events

\* C39 witness: a purge found an article fetched more than 30 days ago that a
\* link references, and removed nothing.
C39_Witness ==
    /\ call.op = "cleanup" /\ call.n = 0
    /\ \E k \in DOMAIN db.articles : Stale(db.articles[k]) /\ Linked(db, k)
    /\ \A k \in DOMAIN db.articles : Linked(db, k)

(***************************************************************************)
(* Properties of the categories and topics (checked under TopicSpec)       *)
(***************************************************************************)

\* The callers of the topic functions.
TopicNext ==
    \/ \E market \in TopicMarkets : CallCategorize(market)
    \/ \E markets \in GroupLists : CallGroup(markets)
    \/ \E markets \in GroupLists : CallTopics(markets)
    \/ \E market \in NewsMarkets, articles \in ArticleLists, max_matches \in MatchLimits :
           CallMatchNews(market, articles, max_matches)

TopicSpec == CrudInit /\ [][TopicNext]_vars

\* The entries of a table whose key (or one of whose keywords) the text contains.
CategoryHits(text) ==
    {i \in DOMAIN category_map : Contains(text, category_map[i][1])}
TitleHits(text) ==
    {i \in DOMAIN title_keywords :
        \E k \in DOMAIN title_keywords[i][2] : Contains(text, title_keywords[i][2][k])}
Least(S) == CHOOSE i \in S : \A j \in S : i <= j

\* C32: a key of the category table contained in the lowercased category
\* field decides, the first such key in table order, whatever the title;
\* without one the first category of the title table with a keyword in the
\* lowercased title decides; without any hit the result is "Other".
C32_FirstMatch ==
    call.op = "categorize" =>
        LET category == lower(IF Get(call.arg, "category") = None THEN "" ELSE call.arg.category)
            title == lower(IF "title" \in DOMAIN call.arg THEN call.arg.title ELSE "")
        IN /\ CategoryHits(category) # {} =>
                 call.n = category_map[Least(CategoryHits(category))][2]
           /\ (CategoryHits(category) = {} /\ TitleHits(title) # {}) =>
                 call.n = title_keywords[Least(TitleHits(title))][1]
           /\ (CategoryHits(category) = {} /\ TitleHits(title) = {}) => call.n = "Other"

\* C32 witness: the category field and the title point to different
\* categories, and the title alone to two.
C32_Witness ==
    /\ call.op = "categorize"
    /\ Get(call.arg, "category") = "FEDERAL"
    /\ Get(call.arg, "title") = "Will Trump fire the Fed chair?"
    /\ call.n = "Economy"

\* C40: a market whose category field is replaced by its label gets the same
\* label again.
C40_StableLabel ==
    call.op = "categorize" =>
        categorize_market(With(call.arg, "category", call.n)) = call.n

\* The sum of a numeric key over a list of dicts, a missing key counting 0.
RECURSIVE SumOf(_, _)
SumOf(rows, key) ==
    IF rows = <<>> THEN 0
    ELSE (IF key \in DOMAIN rows[1] THEN rows[1][key] ELSE 0) + SumOf(Tail(rows), key)
\* How many rows of a list carry the ticker.
CountTicker(rows, ticker) == Cardinality({i \in DOMAIN rows : rows[i].ticker = ticker})
Descending(rows, key) ==
    \A i \in DOMAIN rows : \A j \in DOMAIN rows : i < j => rows[i][key] >= rows[j][key]

\* C33: group_markets_by_topic files every input market in exactly one group,
\* the one named categorize_market(market); a group's total_volume and
\* total_heat are the sums over its members, and its members are in
\* descending order of heat_score; the list get_topics serves is in
\* descending order of total_heat.
C33_GroupsAndTotals ==
    /\ call.op = "group" =>
          /\ \A i \in DOMAIN call.n : \A j \in DOMAIN call.n :
                 call.n[i].name = call.n[j].name => i = j
          /\ \A x \in Range(call.arg) :
                 /\ \E i \in DOMAIN call.n : call.n[i].name = categorize_market(x)
                 /\ \A i \in DOMAIN call.n :
                        /\ CountTicker(call.n[i].markets, x.ticker) =
                               IF call.n[i].name = categorize_market(x)
                               THEN CountTicker(call.arg, x.ticker) ELSE 0
                        /\ \A j \in DOMAIN call.n[i].markets :
                               call.n[i].markets[j].ticker = x.ticker =>
                                   /\ call.n[i].markets[j].title = x.title
                                   /\ Get(call.n[i].markets[j], "volume") = Get(x, "volume")
                                   /\ call.n[i].markets[j].heat_score = calculate_market_heat(x)
          /\ \A i \in DOMAIN call.n :
                 /\ call.n[i].markets # <<>>
                 /\ call.n[i].total_volume = SumOf(call.n[i].markets, "volume")
                 /\ call.n[i].total_heat = SumOf(call.n[i].markets, "heat_score")
                 /\ Descending(call.n[i].markets, "heat_score")
    /\ call.op = "topics" =>
          /\ Descending(call.n, "total_heat")
          /\ SumOf(call.n, "market_count") = Len(call.arg)

\* C33 witness: three markets in two groups, the hotter member of the larger
\* group given after the cooler one.
C33_Witness ==
    /\ call.op = "group"
    /\ Len(call.arg) = 3
    /\ call.arg[1].ticker = "M3" /\ call.arg[2].ticker = "M2" /\ call.arg[3].ticker = "M1"
    /\ Len(call.n) = 2
    /\ call.n[1].name = "Economy"
    /\ call.n[1].markets[1].ticker = "M1" /\ call.n[1].markets[2].ticker = "M3"
    /\ call.n[2].name = "Weather"

(***************************************************************************)
(* Properties of match_news_to_market (checked under TopicSpec)            *)
(***************************************************************************)

\* The articles, given as their keywords, that score more than 0.15 for the
\* market keywords.
OverThreshold(mk, ak) ==
    {i \in DOMAIN ak : 20 * calculate_relevance_score(mk, ak[i]) > 3 * RelevanceUnit}

\* C31: match_news_to_market returns only articles scoring more than 0.15 for
\* the market, with their score rounded to 3 places, in descending order of
\* score and at most max_matches of them; an article sharing no keyword with
\* the market scores 0 and is left out, one sharing fed and rates scores more
\* than 0; stop words and words of at most two letters are no keywords.
C31_MatchesOverThreshold ==
    call.op = "match_news" =>
        LET articles == call.arg.articles
            mk == extract_keywords(market_text(call.arg.market))
            ak == [i \in DOMAIN articles |-> extract_keywords(article_text(articles[i]))]
            over == OverThreshold(mk, ak)
        IN /\ Len(call.n) <= call.arg.max_matches
           /\ Len(call.n) = Min(call.arg.max_matches, Cardinality(over))
           /\ Descending(call.n, "relevance_score")
           /\ \A j \in DOMAIN call.n : \E i \in over :
                  /\ call.n[j].link = articles[i].link
                  /\ call.n[j].title = articles[i].title
                  /\ call.n[j].relevance_score = round3(calculate_relevance_score(mk, ak[i]))
                  /\ call.n[j].relevance_score > 150
           /\ \A i \in DOMAIN articles :
                  /\ mk \cap ak[i] = {} =>
                         /\ calculate_relevance_score(mk, ak[i]) = 0
                         /\ \A j \in DOMAIN call.n : call.n[j].link # articles[i].link
                  /\ {"fed", "rates"} \subseteq mk \cap ak[i] =>
                         calculate_relevance_score(mk, ak[i]) > 0
                  /\ articles[i].link = "u5" => ak[i] = {"fed", "rates", "what"}
           /\ Get(call.arg.market, "category") = "Economics" =>
                  mk = {"fed", "cut", "interest", "rates", "march", "economics"}

\* C31 witness: two articles share fed and rates with the market; the better
\* one, given last, is the one match returned under max_matches = 1.
C31_Witness ==
    /\ call.op = "match_news"
    /\ call.arg.max_matches = 1
    /\ Get(call.arg.market, "category") = "Economics"
    /\ Len(call.arg.articles) = 2
    /\ call.arg.articles[1].link = "u1"
    /\ call.arg.articles[2].link = "u5"
    /\ Len(call.n) = 1
    /\ call.n[1].link = "u5" /\ call.n[1].relevance_score = 800

====
